---- MODULE Spec2Model ----
(***************************************************************************)
(* Ledger store of the trading engine: the SQLite wrapper that keeps the   *)
(* CASH position, the STOCK positions, the orders and the transactions     *)
(* (backend/src/storage/sql_wrapper.py with portfolio.py, orders.py and    *)
(* transactions.py).                                                       *)
(*                                                                         *)
(* Money is counted in whole units; the average cost of a STOCK position   *)
(* and its total_value are exact fractions [num, den], because the         *)
(* weighted mean of two prices need not be a whole number.                 *)
(*                                                                         *)
(* Every public method opens `with self.connect() as conn:`; the sqlite3   *)
(* connection context manager commits when the block ends normally and     *)
(* rolls back when it raises, so a call that raises leaves the tables as   *)
(* they were and a call that returns applies all of its writes.            *)
(***************************************************************************)
EXTENDS Integers, Sequences, FiniteSets, TLC

\* cash          the CASH row of portfolio: [total_value, available]
\* stocks        the STOCK rows of portfolio: stock_symbol -> [number_of_shares,
\*               price_per_share, total_value]; a symbol without a row is not
\*               in the domain
\* orders        the rows of orders; the id of an order is its position
\* transactions  the rows of transactions, in insertion order
\* last, before  the call that ran last and the tables as it found them
\* pc            the step the backtest driver takes next
\* current_day   the driver's current_day, in days after start_date
\* created_on    for each order the driver created, the current_day of its pass
\* start_weekday start_date.weekday(): 0 for a Monday to 6 for a Sunday
\* portfolio_values  the rows of portfolio_values: [date, value], the date in
\*               days after start_date
\* connections   for each caller that runs beside another one on a connection
\*               of its own: the call it makes, the statement it executes
\*               next, and the CASH row as it read it
VARIABLES cash, stocks, orders, transactions, last, before, pc, current_day,
          created_on, start_weekday, portfolio_values, connections

vars == <<cash, stocks, orders, transactions, last, before, pc, current_day,
          created_on, start_weekday, portfolio_values, connections>>

\* the driver's own state, the table only its passes write, and the callers
\* that run beside each other
driver == <<pc, current_day, created_on, start_weekday, portfolio_values,
            connections>>

ledger == <<cash, stocks, orders, transactions>>

\* the tables as a call finds them
Snapshot ==
    [cash |-> cash, stocks |-> stocks, orders |-> orders, transactions |-> transactions]

\* ------------------------------------------------------------------------
\* Bounds of the model and the inputs the operations are called with
\* ------------------------------------------------------------------------
\* the most rows the orders and transactions tables hold together
MaxRows == 5

\* Python's None, for a column or an optional argument that holds no value
None == <<>>
\* an optional argument that is given
Some(v) == <<v>>

\* (stock_symbol, price_per_share, number_of_shares, fee) of the buy orders asked for
BuyRequests == {<<"AAPL", 2, 1, 0>>, <<"AAPL", 1, 2, 0>>, <<"NOD", 1, 2, 1>>}
\* (stock_symbol, price_per_share, number_of_shares, fee) of the sell orders asked for
SellRequests == {<<"AAPL", 2, 1, 1>>, <<"AAPL", 2, 3, 0>>}
\* (_price_per_share, _fee) of execute_order: the defaults, or the day's Open
\* with the fee at that price
Overrides == {<<None, None>>, <<Some(1), Some(0)>>, <<Some(3), Some(1)>>}
DepositAmounts == {0, 4}
WithdrawAmounts == {-1, 3}
\* (stock_symbol, dividend_per_share)
DividendRequests == {<<"AAPL", 1>>, <<"NOD", 0>>}

\* ------------------------------------------------------------------------
\* Exact fractions
\* ------------------------------------------------------------------------
Abs(n) == IF n < 0 THEN -n ELSE n

RECURSIVE GCD(_, _)
GCD(a, b) == IF b = 0 THEN a ELSE GCD(b, a % b)

Frac(n, d) == LET g == GCD(Abs(n), d) IN [num |-> n \div g, den |-> d \div g]

FracOfInt(n) == [num |-> n, den |-> 1]

\* a - b of two fractions
FracMinus(a, b) == Frac(a.num * b.den - b.num * a.den, a.den * b.den)

\* n times the fraction f
FracTimesInt(f, n) == Frac(f.num * n, f.den)

FracPlusInt(f, n) == Frac(f.num + n * f.den, f.den)

\* ------------------------------------------------------------------------
\* Rows
\* ------------------------------------------------------------------------
\* Order(...) as create_buy_order / create_sell_order build it
Order(type, symbol, price, shares, fee, amount) ==
    [order_type |-> type, stock_symbol |-> symbol, price_per_share |-> price,
     number_of_shares |-> shares, fee |-> fee, amount |-> amount,
     status |-> "PENDING"]

\* Transaction(...) with the constructor's defaults for the omitted arguments
Transaction(type, symbol, price, shares, fee, amount) ==
    [transaction_type |-> type, stock_symbol |-> symbol, price_per_share |-> price,
     number_of_shares |-> shares, fee |-> fee, amount |-> amount]

\* The call that ran last: its name, its arguments and how it ended ("ok", or
\* the ValueError it raised; a call that raised is recorded without its
\* arguments). `before` holds the tables as that call found them.
Call(op, args, result) == [op |-> op, args |-> args, result |-> result]

\* the tables can take one more row
HasRoom == Len(orders) + Len(transactions) < MaxRows

\* the ids of the orders that exist, and the next one, which does not yet
OrderIds == 1..(Len(orders) + 1)

\* the call returns
Returned(op, args) ==
    /\ last' = Call(op, args, "ok")
    /\ before' = Snapshot

\* the call raises: the connection rolls back and no table changes
Rejected(op, args, error) ==
    /\ last' = Call(op, None, error)
    /\ before' = Snapshot
    /\ UNCHANGED ledger

\* ------------------------------------------------------------------------
\* Pieces of the operations
\* ------------------------------------------------------------------------
\* the fee left out of the cost
TotalCostWithoutFee(price, shares, fee) == price * shares

\* create_buy_order: total_cost
TotalCost(price, shares, fee) == price * shares + fee

\* create_sell_order: total_proceeds
TotalProceeds(price, shares, fee) == price * shares - fee

\* the check made against the total balance
InsufficientAgainstTotal(c, total_cost) == c.total_value < total_cost

\* create_buy_order: `not cash or cash.available < total_cost`
InsufficientAvailable(c, total_cost) == c.available < total_cost

\* only the presence of the position checked
InsufficientSharesNoQuantity(st, symbol, shares) == symbol \notin DOMAIN st

\* create_sell_order, _execute_sell_order:
\* `not stock or stock.number_of_shares < number_of_shares`
InsufficientShares(st, symbol, shares) ==
    \/ symbol \notin DOMAIN st
    \/ st[symbol].number_of_shares < shares

\* only EXECUTED orders turned away
NotPendingOnlyExecuted(order) == order.status = "EXECUTED"

\* only CANCELED orders turned away
NotPendingOnlyCanceled(order) == order.status = "CANCELED"

\* execute_order, cancel_order: `order.status != "PENDING"`
NotPending(order) == order.status # "PENDING"

\* execute_order: order.amount of a BUY at the executed price and fee
BuyAmount(price, shares, fee) == price * shares + fee

\* the fee added to the proceeds
SellAmountPlusFee(price, shares, fee) == price * shares + fee

\* execute_order: order.amount of a SELL at the executed price and fee
SellAmount(price, shares, fee) == price * shares - fee

\* execute_order, BUY branch: cash_port.available += order.amount
ReleaseBeforeBuy(c, order_amount) ==
    [c EXCEPT !.available = @ + order_amount]

\* _execute_buy_order: `not cash_port or cash_port.total_value < order.amount`
InsufficientTotal(c, order_amount) == c.total_value < order_amount

\* the plain mean of the two prices
UnweightedPrice(old_price, old_shares, price, shares) ==
    Frac(old_price.num + price * old_price.den, 2 * old_price.den)

\* _execute_buy_order: the ON CONFLICT update of price_per_share
WeightedPrice(old_price, old_shares, price, shares) ==
    Frac(old_price.num * old_shares + price * shares * old_price.den,
         old_price.den * (old_shares + shares))

\* the position set to the shares bought, whatever was held
ReplaceStock(st, symbol, shares, price, value) ==
    [s \in DOMAIN st \cup {symbol} |->
        IF s = symbol
        THEN [number_of_shares |-> shares,
              price_per_share |-> FracOfInt(price),
              total_value |-> FracOfInt(value)]
        ELSE st[s]]

\* _execute_buy_order: INSERT INTO portfolio ... ON CONFLICT DO UPDATE
UpsertStock(st, symbol, shares, price, value) ==
    IF symbol \in DOMAIN st
    THEN [st EXCEPT ![symbol] =
            [number_of_shares |-> @.number_of_shares + shares,
             price_per_share |-> WeightedPrice(@.price_per_share, @.number_of_shares,
                                               price, shares),
             total_value |-> FracPlusInt(@.total_value, value)]]
    ELSE [s \in DOMAIN st \cup {symbol} |->
            IF s = symbol
            THEN [number_of_shares |-> shares,
                  price_per_share |-> FracOfInt(price),
                  total_value |-> FracOfInt(value)]
            ELSE st[s]]

\* the amount taken from available only
DeductAvailableOnly(c, order_amount) ==
    [c EXCEPT !.available = @ - order_amount]

\* _execute_buy_order: deduct the total_value from cash
DeductCash(c, order_amount) ==
    [total_value |-> c.total_value - order_amount,
     available |-> c.available - order_amount]

\* the row deleted only below zero
ReduceStockBelowZero(st, symbol, shares) ==
    LET row == st[symbol]
        left == row.number_of_shares - shares
    IN IF left < 0
       THEN [s \in DOMAIN st \ {symbol} |-> st[s]]
       ELSE [st EXCEPT ![symbol] =
               [number_of_shares |-> left,
                price_per_share |-> row.price_per_share,
                total_value |-> FracMinus(row.total_value,
                                          FracTimesInt(row.price_per_share, shares))]]

\* _execute_sell_order: update the portfolio for the stock, delete it at <= 0
ReduceStock(st, symbol, shares) ==
    LET row == st[symbol]
        left == row.number_of_shares - shares
    IN IF left <= 0
       THEN [s \in DOMAIN st \ {symbol} |-> st[s]]
       ELSE [st EXCEPT ![symbol] =
               [number_of_shares |-> left,
                price_per_share |-> row.price_per_share,
                total_value |-> FracMinus(row.total_value,
                                          FracTimesInt(row.price_per_share, shares))]]

\* the amount added to the total only
CreditTotalOnly(c, amount) ==
    [total_value |-> c.total_value + amount, available |-> c.available]

\* _execute_sell_order, deposit, receive_dividend: add to total and available
CreditCash(c, amount) ==
    [total_value |-> c.total_value + amount,
     available |-> c.available + amount]

\* the amount given back to the total as well
RestoreTotalAndAvailable(c, order_amount) ==
    [total_value |-> c.total_value + order_amount,
     available |-> c.available + order_amount]

\* cancel_order: cash_port.available += order.amount
RestoreAvailable(c, order_amount) ==
    [c EXCEPT !.available = @ + order_amount]

\* the rows written before the exception kept
KeepWrites(found, written) == written

\* `with self.connect() as conn:` left by an exception: the connection rolls
\* back and the row is again as the call found it
Rollback(found, written) == found

\* ------------------------------------------------------------------------
\* The state after create_tables: the CASH row with 0, no order, no
\* transaction, no STOCK row
\* ------------------------------------------------------------------------
Init ==
    /\ cash = [total_value |-> 0, available |-> 0]
    /\ stocks = <<>>
    /\ orders = <<>>
    /\ transactions = <<>>
    /\ last = Call("create_tables", <<>>, "ok")
    /\ before = Snapshot
    /\ pc = "not_started"
    /\ current_day = 0
    /\ created_on = <<>>
    /\ start_weekday = 2
    /\ portfolio_values = <<>>
    /\ connections = <<>>

\* ------------------------------------------------------------------------
\* Operations of SQLWrapper
\* ------------------------------------------------------------------------
create_buy_order(stock_symbol, price_per_share, number_of_shares, fee) ==
    LET total_cost == TotalCost(price_per_share, number_of_shares, fee)
        args == <<stock_symbol, price_per_share, number_of_shares, fee>>
    IN IF InsufficientAvailable(cash, total_cost)
       THEN Rejected("create_buy_order", args, "insufficient_cash")
       ELSE /\ HasRoom
            /\ cash' = [cash EXCEPT !.available = @ - total_cost]
            /\ orders' = Append(orders, Order("BUY", stock_symbol, price_per_share,
                                              number_of_shares, fee, total_cost))
            /\ Returned("create_buy_order", args)
            /\ UNCHANGED <<stocks, transactions>>

\* the proceeds reserved from available, as create_buy_order reserves its cost
create_sell_order_reserving(stock_symbol, price_per_share, number_of_shares, fee) ==
    LET total_proceeds == TotalProceeds(price_per_share, number_of_shares, fee)
        args == <<stock_symbol, price_per_share, number_of_shares, fee>>
    IN IF InsufficientShares(stocks, stock_symbol, number_of_shares)
       THEN Rejected("create_sell_order", args, "insufficient_shares")
       ELSE /\ HasRoom
            /\ cash' = [cash EXCEPT !.available = @ - total_proceeds]
            /\ orders' = Append(orders, Order("SELL", stock_symbol, price_per_share,
                                              number_of_shares, fee, total_proceeds))
            /\ Returned("create_sell_order", args)
            /\ UNCHANGED <<stocks, transactions>>

create_sell_order(stock_symbol, price_per_share, number_of_shares, fee) ==
    LET total_proceeds == TotalProceeds(price_per_share, number_of_shares, fee)
        args == <<stock_symbol, price_per_share, number_of_shares, fee>>
    IN IF InsufficientShares(stocks, stock_symbol, number_of_shares)
       THEN Rejected("create_sell_order", args, "insufficient_shares")
       ELSE /\ HasRoom
            /\ orders' = Append(orders, Order("SELL", stock_symbol, price_per_share,
                                              number_of_shares, fee, total_proceeds))
            /\ Returned("create_sell_order", args)
            /\ UNCHANGED <<cash, stocks, transactions>>

\* the order as execute_order holds it after the overrides and the amount
ExecutedOrder(order, _price_per_share, _fee) ==
    LET price == IF _price_per_share # None THEN _price_per_share[1]
                 ELSE order.price_per_share
        fee == IF _fee # None THEN _fee[1] ELSE order.fee
        amount == IF order.order_type = "BUY"
                  THEN BuyAmount(price, order.number_of_shares, fee)
                  ELSE SellAmount(price, order.number_of_shares, fee)
    IN [order EXCEPT !.price_per_share = price, !.fee = fee, !.amount = amount]

\* the status saved on the row as it was created
SaveStatusOnly(order_id, order) ==
    orders' = [orders EXCEPT ![order_id].status = "EXECUTED"]

\* order.status = "EXECUTED"; order.save(conn)
SaveExecuted(order_id, order) ==
    orders' = [orders EXCEPT ![order_id] = [order EXCEPT !.status = "EXECUTED"]]

_execute_buy_order(order_id, order, args) ==
    LET cash_port == ReleaseBeforeBuy(cash, order.amount)
    IN IF InsufficientTotal(cash_port, order.amount)
       THEN /\ cash' = Rollback(cash, cash_port)
            /\ last' = Call("execute_order", None, "insufficient_total")
            /\ before' = Snapshot
            /\ UNCHANGED <<stocks, orders, transactions>>
       ELSE /\ HasRoom
            /\ stocks' = UpsertStock(stocks, order.stock_symbol, order.number_of_shares,
                                     order.price_per_share, order.amount - order.fee)
            /\ cash' = DeductCash(cash_port, order.amount)
            /\ transactions' = Append(transactions,
                   Transaction("BUY", order.stock_symbol, order.price_per_share,
                               order.number_of_shares, order.fee, order.amount))
            /\ SaveExecuted(order_id, order)
            /\ Returned("execute_order", args)

_execute_sell_order(order_id, order, args) ==
    IF InsufficientShares(stocks, order.stock_symbol, order.number_of_shares)
    THEN Rejected("execute_order", args, "insufficient_shares")
    ELSE /\ HasRoom
         /\ stocks' = ReduceStock(stocks, order.stock_symbol, order.number_of_shares)
         /\ cash' = CreditCash(cash, order.amount)
         /\ transactions' = Append(transactions,
                Transaction("SELL", order.stock_symbol, order.price_per_share,
                            order.number_of_shares, order.fee, order.amount))
         /\ SaveExecuted(order_id, order)
         /\ Returned("execute_order", args)

execute_order(order_id, _price_per_share, _fee) ==
    LET args == <<order_id, _price_per_share, _fee>>
    IN IF order_id \notin DOMAIN orders
       THEN Rejected("execute_order", args, "not_found")
       ELSE IF NotPending(orders[order_id])
       THEN Rejected("execute_order", args, "not_pending")
       ELSE LET order == ExecutedOrder(orders[order_id], _price_per_share, _fee)
            IN IF order.order_type = "BUY"
               THEN _execute_buy_order(order_id, order, args)
               ELSE _execute_sell_order(order_id, order, args)

\* the cancellation written to the transactions as well
cancel_order_with_transaction(order_id) ==
    LET args == <<order_id>>
    IN IF order_id \notin DOMAIN orders
       THEN Rejected("cancel_order", args, "not_found")
       ELSE IF NotPending(orders[order_id])
       THEN Rejected("cancel_order", args, "not_pending")
       ELSE /\ HasRoom
            /\ cash' = IF orders[order_id].order_type = "BUY"
                       THEN RestoreAvailable(cash, orders[order_id].amount)
                       ELSE cash
            /\ orders' = [orders EXCEPT ![order_id].status = "CANCELED"]
            /\ transactions' = Append(transactions,
                   Transaction("CANCEL", orders[order_id].stock_symbol, None, None, 0, 0))
            /\ Returned("cancel_order", args)
            /\ UNCHANGED stocks

cancel_order(order_id) ==
    LET args == <<order_id>>
    IN IF order_id \notin DOMAIN orders
       THEN Rejected("cancel_order", args, "not_found")
       ELSE IF NotPending(orders[order_id])
       THEN Rejected("cancel_order", args, "not_pending")
       ELSE /\ cash' = IF orders[order_id].order_type = "BUY"
                       THEN RestoreAvailable(cash, orders[order_id].amount)
                       ELSE cash
            /\ orders' = [orders EXCEPT ![order_id].status = "CANCELED"]
            /\ Returned("cancel_order", args)
            /\ UNCHANGED <<stocks, transactions>>

deposit(amount) ==
    IF amount <= 0
    THEN Rejected("deposit", <<amount>>, "not_positive")
    ELSE /\ HasRoom
         /\ cash' = CreditCash(cash, amount)
         /\ transactions' = Append(transactions,
                Transaction("DEPOSIT", None, None, None, 0, amount))
         /\ Returned("deposit", <<amount>>)
         /\ UNCHANGED <<stocks, orders>>

\* the withdrawal checked against the cash total only
withdraw_against_total(amount) ==
    IF amount <= 0
    THEN Rejected("withdraw", <<amount>>, "not_positive")
    ELSE IF cash.total_value < amount
    THEN Rejected("withdraw", <<amount>>, "insufficient_cash")
    ELSE /\ HasRoom
         /\ cash' = DeductCash(cash, amount)
         /\ transactions' = Append(transactions,
                Transaction("WITHDRAW", None, None, None, 0, amount))
         /\ Returned("withdraw", <<amount>>)
         /\ UNCHANGED <<stocks, orders>>

withdraw(amount) ==
    IF amount <= 0
    THEN Rejected("withdraw", <<amount>>, "not_positive")
    ELSE IF cash.total_value < amount \/ cash.available < amount
    THEN Rejected("withdraw", <<amount>>, "insufficient_cash")
    ELSE /\ HasRoom
         /\ cash' = DeductCash(cash, amount)
         /\ transactions' = Append(transactions,
                Transaction("WITHDRAW", None, None, None, 0, amount))
         /\ Returned("withdraw", <<amount>>)
         /\ UNCHANGED <<stocks, orders>>

\* the dividend added to the cash total only
receive_dividend_to_total(stock_symbol, dividend_per_share) ==
    LET args == <<stock_symbol, dividend_per_share>>
    IN IF dividend_per_share <= 0
       THEN Rejected("receive_dividend", args, "not_positive")
       ELSE IF stock_symbol \notin DOMAIN stocks
               \/ stocks[stock_symbol].number_of_shares = 0
       THEN Rejected("receive_dividend", args, "no_shares")
       ELSE LET total_dividend ==
                    stocks[stock_symbol].number_of_shares * dividend_per_share
            IN /\ HasRoom
               /\ cash' = CreditTotalOnly(cash, total_dividend)
               /\ transactions' = Append(transactions,
                      Transaction("DIVIDEND", stock_symbol, dividend_per_share,
                                  stocks[stock_symbol].number_of_shares, 0,
                                  total_dividend))
               /\ Returned("receive_dividend", args)
               /\ UNCHANGED <<stocks, orders>>

receive_dividend(stock_symbol, dividend_per_share) ==
    LET args == <<stock_symbol, dividend_per_share>>
    IN IF dividend_per_share <= 0
       THEN Rejected("receive_dividend", args, "not_positive")
       ELSE IF stock_symbol \notin DOMAIN stocks
               \/ stocks[stock_symbol].number_of_shares = 0
       THEN Rejected("receive_dividend", args, "no_shares")
       ELSE LET total_dividend ==
                    stocks[stock_symbol].number_of_shares * dividend_per_share
            IN /\ HasRoom
               /\ cash' = CreditCash(cash, total_dividend)
               /\ transactions' = Append(transactions,
                      Transaction("DIVIDEND", stock_symbol, dividend_per_share,
                                  stocks[stock_symbol].number_of_shares, 0,
                                  total_dividend))
               /\ Returned("receive_dividend", args)
               /\ UNCHANGED <<stocks, orders>>

\* ------------------------------------------------------------------------
\* The same operations as functions of the tables: db is the tables as the
\* call finds them, the value is the tables as the call leaves them and how
\* it ended. The broker makes several of these calls in one of its methods.
\* ------------------------------------------------------------------------
Done(db) == [db |-> db, result |-> "ok"]

\* the call raises and its connection rolls back
Raised(db, error) == [db |-> db, result |-> error]

create_buy_order_on(db, stock_symbol, price_per_share, number_of_shares, fee) ==
    LET total_cost == TotalCost(price_per_share, number_of_shares, fee)
    IN IF InsufficientAvailable(db.cash, total_cost)
       THEN Raised(db, "insufficient_cash")
       ELSE Done([db EXCEPT
                !.cash = [@ EXCEPT !.available = @ - total_cost],
                !.orders = Append(@, Order("BUY", stock_symbol, price_per_share,
                                           number_of_shares, fee, total_cost))])

create_sell_order_on(db, stock_symbol, price_per_share, number_of_shares, fee) ==
    LET total_proceeds == TotalProceeds(price_per_share, number_of_shares, fee)
    IN IF InsufficientShares(db.stocks, stock_symbol, number_of_shares)
       THEN Raised(db, "insufficient_shares")
       ELSE Done([db EXCEPT
                !.orders = Append(@, Order("SELL", stock_symbol, price_per_share,
                                           number_of_shares, fee, total_proceeds))])

_execute_buy_order_on(db, order_id, order) ==
    LET cash_port == ReleaseBeforeBuy(db.cash, order.amount)
    IN IF InsufficientTotal(cash_port, order.amount)
       THEN Raised([db EXCEPT !.cash = Rollback(db.cash, cash_port)],
                   "insufficient_total")
       ELSE Done([cash |-> DeductCash(cash_port, order.amount),
                  stocks |-> UpsertStock(db.stocks, order.stock_symbol,
                                         order.number_of_shares, order.price_per_share,
                                         order.amount - order.fee),
                  orders |-> [db.orders EXCEPT
                                 ![order_id] = [order EXCEPT !.status = "EXECUTED"]],
                  transactions |-> Append(db.transactions,
                      Transaction("BUY", order.stock_symbol, order.price_per_share,
                                  order.number_of_shares, order.fee, order.amount))])

_execute_sell_order_on(db, order_id, order) ==
    IF InsufficientShares(db.stocks, order.stock_symbol, order.number_of_shares)
    THEN Raised(db, "insufficient_shares")
    ELSE Done([cash |-> CreditCash(db.cash, order.amount),
               stocks |-> ReduceStock(db.stocks, order.stock_symbol,
                                      order.number_of_shares),
               orders |-> [db.orders EXCEPT
                              ![order_id] = [order EXCEPT !.status = "EXECUTED"]],
               transactions |-> Append(db.transactions,
                   Transaction("SELL", order.stock_symbol, order.price_per_share,
                               order.number_of_shares, order.fee, order.amount))])

execute_order_on(db, order_id, _price_per_share, _fee) ==
    IF order_id \notin DOMAIN db.orders
    THEN Raised(db, "not_found")
    ELSE IF NotPending(db.orders[order_id])
    THEN Raised(db, "not_pending")
    ELSE LET order == ExecutedOrder(db.orders[order_id], _price_per_share, _fee)
         IN IF order.order_type = "BUY"
            THEN _execute_buy_order_on(db, order_id, order)
            ELSE _execute_sell_order_on(db, order_id, order)

\* the order marked CANCELED and the reserved amount kept back
cancel_order_keeping_reserve(db, order_id) ==
    IF order_id \notin DOMAIN db.orders
    THEN Raised(db, "not_found")
    ELSE IF NotPending(db.orders[order_id])
    THEN Raised(db, "not_pending")
    ELSE Done([db EXCEPT !.orders = [@ EXCEPT ![order_id].status = "CANCELED"]])

cancel_order_on(db, order_id) ==
    IF order_id \notin DOMAIN db.orders
    THEN Raised(db, "not_found")
    ELSE IF NotPending(db.orders[order_id])
    THEN Raised(db, "not_pending")
    ELSE Done([db EXCEPT
             !.cash = IF db.orders[order_id].order_type = "BUY"
                      THEN RestoreAvailable(@, db.orders[order_id].amount)
                      ELSE @,
             !.orders = [@ EXCEPT ![order_id].status = "CANCELED"]])

deposit_on(db, amount) ==
    IF amount <= 0
    THEN Raised(db, "not_positive")
    ELSE Done([db EXCEPT
             !.cash = CreditCash(@, amount),
             !.transactions = Append(@, Transaction("DEPOSIT", None, None, None,
                                                    0, amount))])

receive_dividend_on(db, stock_symbol, dividend_per_share) ==
    IF dividend_per_share <= 0
    THEN Raised(db, "not_positive")
    ELSE IF stock_symbol \notin DOMAIN db.stocks
            \/ db.stocks[stock_symbol].number_of_shares = 0
    THEN Raised(db, "no_shares")
    ELSE LET shares == db.stocks[stock_symbol].number_of_shares
             total_dividend == shares * dividend_per_share
         IN Done([db EXCEPT
                !.cash = CreditCash(@, total_dividend),
                !.transactions = Append(@, Transaction("DIVIDEND", stock_symbol,
                                            dividend_per_share, shares, 0,
                                            total_dividend))])

\* ------------------------------------------------------------------------
\* The broker (backend/src/business/broker.py). Its prices and amounts are
\* counted in units of 1/20000 of a krone, the unit in which a tick of 0.1
\* is 2000 and the fee of 0.15 % of a notional at a price in ticks is a
\* whole number. Floating-point rounding is left out.
\* ------------------------------------------------------------------------
Krone == 20000

\* round_to_tick_size: tick_size = 0.1
tick_size == Krone \div 10

\* calculate_fee: minimum_fee = 29
minimum_fee == 29 * Krone

\* calculate_fee: percentage = 0.0015
percentage == [num |-> 3, den |-> 2000]

\* Broker.min_prediction_difference = 0.1, as 1 + 0.1
min_prediction_difference == [num |-> 11, den |-> 10]

\* Broker.buy_threshold_increase = 0.02, as 1 + 0.02
buy_threshold_increase == [num |-> 102, den |-> 100]

\* Broker.sell_threshold_decrease = 0.02, as 1 - 0.02
sell_threshold_decrease == [num |-> 98, den |-> 100]

\* Python's round(n / d) of a quotient: to the nearest whole number, a half
\* to the even one
RoundHalfEven(n, d) ==
    LET q == n \div d
        r == n % d
    IN IF 2 * r < d THEN q
       ELSE IF 2 * r > d THEN q + 1
       ELSE IF q % 2 = 0 THEN q ELSE q + 1

\* round_to_tick_size of the number n / d
round_to_tick_size(n, d) == tick_size * RoundHalfEven(n, d * tick_size)

\* the thresholds given whatever the spread of the prediction
thresholds_of_any_spread(predicted_low, predicted_high) ==
    IF predicted_low >= predicted_high \/ predicted_low < 0
    THEN <<None, None>>
    ELSE <<Some(round_to_tick_size(predicted_low * buy_threshold_increase.num,
                                   buy_threshold_increase.den)),
           Some(round_to_tick_size(predicted_high * sell_threshold_decrease.num,
                                   sell_threshold_decrease.den))>>

\* (buy_threshold, sell_threshold), each given as Some(price), or (None, None)
calculate_thresholds(predicted_low, predicted_high) ==
    IF predicted_low >= predicted_high
    THEN <<None, None>>
    ELSE IF predicted_low < 0 \/ predicted_high < 0
    THEN <<None, None>>
    ELSE IF predicted_low * min_prediction_difference.num
                < predicted_high * min_prediction_difference.den
    THEN <<Some(round_to_tick_size(predicted_low * buy_threshold_increase.num,
                                   buy_threshold_increase.den)),
           Some(round_to_tick_size(predicted_high * sell_threshold_decrease.num,
                                   sell_threshold_decrease.den))>>
    ELSE <<None, None>>

\* the minimum charged whatever the notional
FlatFee(price_per_share, number_of_shares) == minimum_fee

\* max(minimum_fee, percentage * price_per_share * number_of_shares)
calculate_fee(price_per_share, number_of_shares) ==
    LET notional == price_per_share * number_of_shares
        \* percentage * notional: its whole part and what is left of it
        whole == (notional \div percentage.den) * percentage.num
                     + ((notional % percentage.den) * percentage.num) \div percentage.den
        rest == ((notional % percentage.den) * percentage.num) % percentage.den
    IN IF whole > minimum_fee \/ (whole = minimum_fee /\ rest > 0)
       THEN whole
       ELSE minimum_fee

\* Broker.number_of_stocks_allowed. The source sets 10; the model runs the
\* broker with a smaller portfolio so that the full portfolio is reached.
number_of_stocks_allowed == 3

\* len(self.sql_wrapper.get_portfolio()) - 1: the rows but the CASH row
number_of_stocks_in_portfolio(db) == Cardinality(DOMAIN db.stocks)

\* the slots counted from the whole portfolio size, the positions held ignored
SlotsIgnoringHeld(db) == number_of_stocks_allowed

\* number_of_stocks_allowed - number_of_stocks_in_portfolio
Slots(db) == number_of_stocks_allowed - number_of_stocks_in_portfolio(db)

\* floor(a / b) for b # 0, as Python's // gives it
FloorDiv(a, b) == IF b > 0 THEN a \div b ELSE (0 - a) \div (0 - b)

\* the while loop of calculate_number_of_shares, entered with max_shares:
\* buy_threshold * max_shares + fee <= allowed_value_per_stock, where
\* allowed_value_per_stock is cash_available / slots
RECURSIVE AffordableShares(_, _, _, _)
AffordableShares(max_shares, buy_threshold, cash_available, slots) ==
    IF max_shares > 0
    THEN IF LET cost == buy_threshold * max_shares
                            + calculate_fee(buy_threshold, max_shares)
            IN IF slots > 0 THEN cost * slots <= cash_available
                            ELSE cost * slots >= cash_available
         THEN max_shares
         ELSE AffordableShares(max_shares - 1, buy_threshold, cash_available, slots)
    ELSE max_shares

\* calculate_number_of_shares(buy_threshold): the number returned, or the
\* ZeroDivisionError of `allowed_value_per_stock // buy_threshold`
calculate_number_of_shares(db, buy_threshold) ==
    LET cash_available == db.cash.available
        slots == Slots(db)
    IN IF buy_threshold = 0
       THEN [result |-> "ZeroDivisionError", shares |-> 0]
       ELSE IF slots = 0
       THEN \* except ZeroDivisionError: allowed_value_per_stock = 0
            [result |-> "ok", shares |-> 0]
       ELSE [result |-> "ok",
             shares |-> AffordableShares(
                            FloorDiv(cash_available, slots * buy_threshold),
                            buy_threshold, cash_available, slots)]

\* get_stock_symbols_in_portfolio(): the symbols of the STOCK rows
get_stock_symbols_in_portfolio(db) == DOMAIN db.stocks

\* StockPrediction(ticker, predicted_low, predicted_high)
StockPrediction(ticker, predicted_low, predicted_high) ==
    [ticker |-> ticker, predicted_low |-> predicted_low,
     predicted_high |-> predicted_high, number_of_shares |-> None,
     buy_threshold |-> None, sell_threshold |-> None, profit |-> None]

\* the candidate kept whatever the latest close
CloseToAnyShareValue(buy_threshold, share_value) == TRUE

\* `not buy_threshold*1.03 < share_value`
CloseToShareValue(buy_threshold, share_value) ==
    ~(buy_threshold * 103 < share_value * 100)

\* the loop of populate_prediction_with_orders over predictions[i..]: the
\* sell and buy predictions gathered, or the exception that ends the loop.
\* share_values gives the latest close of each ticker as Some(close), or
\* None where the history of the ten days has no row.
RECURSIVE GatherPredictions(_, _, _, _, _, _)
GatherPredictions(db, predictions, share_values, i, sell_predictions, buy_predictions) ==
    IF i > Len(predictions)
    THEN [result |-> "ok", sell_predictions |-> sell_predictions,
          buy_predictions |-> buy_predictions]
    ELSE
    LET prediction == predictions[i]
        thresholds == calculate_thresholds(prediction.predicted_low,
                                           prediction.predicted_high)
        buy_threshold == thresholds[1][1]
        sell_threshold == thresholds[2][1]
    IN IF prediction.ticker \in get_stock_symbols_in_portfolio(db)
       THEN IF thresholds[2] = None
            THEN \* calculate_fee(None, number_of_shares): 0.0015 * None
                 [result |-> "TypeError", sell_predictions |-> sell_predictions,
                  buy_predictions |-> buy_predictions]
            ELSE GatherPredictions(db, predictions, share_values, i + 1,
                     Append(sell_predictions,
                            [prediction EXCEPT
                                !.number_of_shares =
                                    db.stocks[prediction.ticker].number_of_shares,
                                !.sell_threshold = sell_threshold]),
                     buy_predictions)
       ELSE IF thresholds[1] = None \/ thresholds[2] = None
       THEN GatherPredictions(db, predictions, share_values, i + 1,
                              sell_predictions, buy_predictions)
       ELSE
       LET sized == calculate_number_of_shares(db, buy_threshold)
           number_of_shares == sized.shares
           buy_fee == calculate_fee(buy_threshold, number_of_shares)
           sell_fee == calculate_fee(sell_threshold, number_of_shares)
           total_buy_cost == number_of_shares * buy_threshold + buy_fee
           total_sell_value == number_of_shares * sell_threshold - sell_fee
           profit == total_sell_value - total_buy_cost
       IN IF sized.result # "ok"
          THEN [result |-> sized.result, sell_predictions |-> sell_predictions,
                buy_predictions |-> buy_predictions]
          ELSE IF number_of_shares <= 0
          THEN GatherPredictions(db, predictions, share_values, i + 1,
                                 sell_predictions, buy_predictions)
          ELSE IF profit > 0 /\ share_values[prediction.ticker] = None
          THEN \* ['Close'].values[-1] of a history without rows
               [result |-> "IndexError", sell_predictions |-> sell_predictions,
                buy_predictions |-> buy_predictions]
          ELSE IF profit > 0
                  /\ CloseToShareValue(buy_threshold, share_values[prediction.ticker][1])
          THEN GatherPredictions(db, predictions, share_values, i + 1,
                   sell_predictions,
                   Append(buy_predictions,
                          [prediction EXCEPT
                              !.number_of_shares = number_of_shares,
                              !.buy_threshold = buy_threshold,
                              !.sell_threshold = sell_threshold,
                              !.profit = profit]))
          ELSE GatherPredictions(db, predictions, share_values, i + 1,
                                 sell_predictions, buy_predictions)

\* x put last, whatever its profit
InsertLast(sorted, x) == Append(sorted, x)

\* x put into a list sorted by profit, largest first, behind its equals
InsertByProfit(sorted, x) ==
    LET ahead == Cardinality({k \in DOMAIN sorted : sorted[k].profit >= x.profit})
    IN SubSeq(sorted, 1, ahead) \o <<x>> \o SubSeq(sorted, ahead + 1, Len(sorted))

\* buy_predictions.sort(key=lambda x: x.profit, reverse=True): a stable sort
RECURSIVE SortByProfit(_)
SortByProfit(buy_predictions) ==
    IF buy_predictions = <<>> THEN <<>>
    ELSE InsertByProfit(
             SortByProfit(SubSeq(buy_predictions, 1, Len(buy_predictions) - 1)),
             buy_predictions[Len(buy_predictions)])

\* Python's list[:stop]
Slice(list, stop) ==
    IF stop >= 0
    THEN SubSeq(list, 1, IF stop < Len(list) THEN stop ELSE Len(list))
    ELSE SubSeq(list, 1, IF Len(list) + stop > 0 THEN Len(list) + stop ELSE 0)

\* the buy predictions cut to the whole portfolio size, the sell
\* predictions not counted
CapIgnoringSells(sell_predictions, buy_predictions) ==
    sell_predictions \o Slice(buy_predictions, number_of_stocks_allowed)

\* sell_predictions + buy_predictions[:number_of_stocks_allowed - len(sell_predictions)]
CapToAllowed(sell_predictions, buy_predictions) ==
    sell_predictions
        \o Slice(buy_predictions, number_of_stocks_allowed - Len(sell_predictions))

\* populate_prediction_with_orders(predictions): the predictions to create
\* orders for, or the exception raised
populate_prediction_with_orders(db, predictions, share_values) ==
    LET gathered == GatherPredictions(db, predictions, share_values, 1, <<>>, <<>>)
    IN IF gathered.result # "ok"
       THEN [result |-> gathered.result, predictions |-> <<>>]
       ELSE [result |-> "ok",
             predictions |-> CapToAllowed(gathered.sell_predictions,
                                          SortByProfit(gathered.buy_predictions))]

\* the loop of create_orders over predictions[i..]; the date given to the
\* wrapper is the orders' timestamp, which the rows of the model leave out
RECURSIVE create_orders_from(_, _, _)
create_orders_from(db, predictions, i) ==
    IF i > Len(predictions)
    THEN Done(db)
    ELSE
    LET prediction == predictions[i]
    IN IF prediction.ticker \in DOMAIN db.stocks
       THEN LET sold == create_sell_order_on(db, prediction.ticker,
                            prediction.sell_threshold, prediction.number_of_shares,
                            calculate_fee(prediction.sell_threshold,
                                          prediction.number_of_shares))
            IN IF sold.result # "ok"
               THEN sold
               ELSE create_orders_from(sold.db, predictions, i + 1)
       ELSE LET bought == create_buy_order_on(db, prediction.ticker,
                              prediction.buy_threshold, prediction.number_of_shares,
                              calculate_fee(prediction.buy_threshold,
                                            prediction.number_of_shares))
            IN \* except ValueError: continue
               create_orders_from(bought.db, predictions, i + 1)

create_orders(db, predictions) == create_orders_from(db, predictions, 1)

\* the day's price bar of a symbol as yf.download gives it: None when the
\* symbol was not traded on the day, or Some([Open, High, Low])
Bar(open, high, low) == Some([Open |-> open, High |-> high, Low |-> low])

\* the BUY order filled at its limit price although the day opened below it
SettleAtLimit(db, order_id, order, todays_prices) ==
    IF todays_prices = None
    THEN cancel_order_on(db, order_id)
    ELSE IF order.order_type = "BUY" /\ todays_prices[1].Low <= order.price_per_share
    THEN execute_order_on(db, order_id, None, None)
    ELSE IF order.order_type = "SELL" /\ todays_prices[1].High >= order.price_per_share
    THEN execute_order_on(db, order_id, None, None)
    ELSE cancel_order_on(db, order_id)

\* the body of the loop of conclude_pending_orders_for_traded_stocks for
\* one order, todays_prices being the bar of the order's symbol
SettleOrder(db, order_id, order, todays_prices) ==
    IF todays_prices = None
    THEN cancel_order_on(db, order_id)
    ELSE IF order.order_type = "BUY" /\ todays_prices[1].Open <= order.price_per_share
    THEN execute_order_on(db, order_id, Some(todays_prices[1].Open),
                          Some(calculate_fee(todays_prices[1].Open,
                                             order.number_of_shares)))
    ELSE IF order.order_type = "BUY" /\ todays_prices[1].Low <= order.price_per_share
    THEN execute_order_on(db, order_id, None, None)
    ELSE IF order.order_type = "SELL" /\ todays_prices[1].Open >= order.price_per_share
    THEN execute_order_on(db, order_id, Some(todays_prices[1].Open),
                          Some(calculate_fee(todays_prices[1].Open,
                                             order.number_of_shares)))
    ELSE IF order.order_type = "SELL" /\ todays_prices[1].High >= order.price_per_share
    THEN execute_order_on(db, order_id, None, None)
    ELSE cancel_order_on(db, order_id)

\* get_orders_by_status(['PENDING']): the ids of the PENDING orders, in the
\* order of the table
RECURSIVE PendingFrom(_, _)
PendingFrom(os, i) ==
    IF i > Len(os) THEN <<>>
    ELSE (IF os[i].status = "PENDING" THEN <<i>> ELSE <<>>) \o PendingFrom(os, i + 1)

\* only the first of the PENDING orders read
first_order_by_status(db) == Slice(PendingFrom(db.orders, 1), 1)

get_orders_by_status(db) == PendingFrom(db.orders, 1)

\* the loop of conclude_pending_orders_for_traded_stocks over
\* pending_orders[i..], as read before the loop; an exception of the
\* wrapper ends it
RECURSIVE conclude_from(_, _, _, _, _)
conclude_from(db, found, pending_orders, prices, i) ==
    IF i > Len(pending_orders)
    THEN Done(db)
    ELSE LET order_id == pending_orders[i]
             order == found.orders[order_id]
             settled == SettleOrder(db, order_id, order, prices[order.stock_symbol])
         IN IF settled.result # "ok"
            THEN settled
            ELSE conclude_from(settled.db, found, pending_orders, prices, i + 1)

\* conclude_pending_orders_for_traded_stocks(todays_date), prices giving the
\* bar of todays_date for each symbol with a PENDING order
conclude_pending_orders_for_traded_stocks(db, prices) ==
    conclude_from(db, db, get_orders_by_status(db), prices, 1)

\* the loop of dividend_payout over the STOCK rows portfolio[i..], as read
\* before the loop; dividends gives for a symbol the 'Dividends' column of
\* the day's history, Some(values), or None where the history has no such
\* column (KeyError: continue). values[0] of a column without rows raises
\* IndexError, which nothing catches.
RECURSIVE dividend_payout_from(_, _, _, _)
dividend_payout_from(db, portfolio, dividends, i) ==
    IF i > Len(portfolio)
    THEN Done(db)
    ELSE LET symbol == portfolio[i]
         IN IF dividends[symbol] = None
            THEN dividend_payout_from(db, portfolio, dividends, i + 1)
            ELSE IF Len(dividends[symbol][1]) = 0
            THEN Raised(db, "IndexError")
            ELSE IF dividends[symbol][1][1] > 0
            THEN LET paid == receive_dividend_on(db, symbol, dividends[symbol][1][1])
                 IN IF paid.result # "ok"
                    THEN paid
                    ELSE dividend_payout_from(paid.db, portfolio, dividends, i + 1)
            ELSE dividend_payout_from(db, portfolio, dividends, i + 1)

\* dividend_payout(date), portfolio being the symbols of the STOCK rows in
\* the order get_portfolio returns them
dividend_payout(db, portfolio, dividends) ==
    dividend_payout_from(db, portfolio, dividends, 1)

\* the loop of get_market_value_of_stocks_in_portfolio over the STOCK rows
\* portfolio[i..]; share_values gives the latest close of a symbol as
\* Some(close), or None where the history of the ten days has no row
RECURSIVE market_value_from(_, _, _, _)
market_value_from(db, portfolio, share_values, i) ==
    IF i > Len(portfolio)
    THEN [result |-> "ok", market_value |-> 0]
    ELSE LET symbol == portfolio[i]
             rest == market_value_from(db, portfolio, share_values, i + 1)
         IN IF share_values[symbol] = None
            THEN [result |-> "IndexError", market_value |-> 0]
            ELSE IF rest.result # "ok"
            THEN rest
            ELSE [result |-> "ok",
                  market_value |-> db.stocks[symbol].number_of_shares
                                       * share_values[symbol][1] + rest.market_value]

get_market_value_of_stocks_in_portfolio(db, portfolio, share_values) ==
    market_value_from(db, portfolio, share_values, 1)

\* the dates that have a sample
SampledDates(values) == {values[i].date : i \in DOMAIN values}

\* set_portfolio_values(date, value): the sample of the date is overwritten
\* when the date has one, and added when it has none
set_portfolio_values(values, date, value) ==
    IF date \in SampledDates(values)
    THEN [i \in DOMAIN values |->
            IF values[i].date = date THEN [date |-> date, value |-> value]
            ELSE values[i]]
    ELSE Append(values, [date |-> date, value |-> value])

\* the value of the stocks recorded without the cash
update_portfolio_value_without_cash(db, values, portfolio, share_values, date) ==
    LET stock_value == get_market_value_of_stocks_in_portfolio(db, portfolio, share_values)
    IN IF stock_value.result = "IndexError"
       THEN [result |-> "IndexError", values |-> values]
       ELSE [result |-> "ok",
             values |-> set_portfolio_values(values, date, stock_value.market_value)]

\* update_portfolio_value(date): the rows of portfolio_values after it; an
\* IndexError of the valuation is caught and no sample is written
update_portfolio_value(db, values, portfolio, share_values, date) ==
    LET stock_value == get_market_value_of_stocks_in_portfolio(db, portfolio, share_values)
    IN IF stock_value.result = "IndexError"
       THEN [result |-> "IndexError", values |-> values]
       ELSE [result |-> "ok",
             values |-> set_portfolio_values(values, date,
                            db.cash.total_value + stock_value.market_value)]

CreateBuy ==
    /\ \E r \in BuyRequests : create_buy_order(r[1], r[2], r[3], r[4])
    /\ UNCHANGED driver

CreateSell ==
    /\ \E r \in SellRequests : create_sell_order(r[1], r[2], r[3], r[4])
    /\ UNCHANGED driver

Execute ==
    /\ \E i \in OrderIds, o \in Overrides : execute_order(i, o[1], o[2])
    /\ UNCHANGED driver

Cancel ==
    /\ \E i \in OrderIds : cancel_order(i)
    /\ UNCHANGED driver

Deposit ==
    /\ \E a \in DepositAmounts : deposit(a)
    /\ UNCHANGED driver

Withdraw ==
    /\ \E a \in WithdrawAmounts : withdraw(a)
    /\ UNCHANGED driver

Dividend ==
    /\ \E r \in DividendRequests : receive_dividend(r[1], r[2])
    /\ UNCHANGED driver

Next ==
    \/ CreateBuy
    \/ CreateSell
    \/ Execute
    \/ Cancel
    \/ Deposit
    \/ Withdraw
    \/ Dividend

Spec == Init /\ [][Next]_vars

\* ------------------------------------------------------------------------
\* The backtest driver (backend/src/business/trading_backtracking.py): one
\* pass per weekday of the range over dividend payout, settlement of the
\* PENDING orders and order creation. The account is funded before the run.
\* ------------------------------------------------------------------------
\* the weekdays of start_date the driver is run from: Wednesday, as
\* start_date = date(2025, 3, 5) is, and Friday
StartWeekdays == {2, 4}

\* end_date, in days after start_date
end_date == 3

\* every day taken for a Monday
always_monday(day) == 0

\* current_day.weekday()
weekday(day) == (start_weekday + day) % 7

\* available_tickers, in the order the driver asks for their predictions
Tickers == <<"AAPL", "NOD", "DNB", "EQNR">>

TickerSet == {Tickers[i] : i \in DOMAIN Tickers}

\* the deposits the account is funded with before the run
Fundings == {2500 * Krone, 61000 * Krone}

\* what predict_next_period gives for a ticker: None when it raises
\* ValueError, or Some((predicted_low, predicted_high))
NoForecast == None

\* a spread below min_prediction_difference
ThinForecast == Some(<<500 * Krone, 520 * Krone>>)

GoodForecast == Some(<<500 * Krone, 700 * Krone>>)

BetterForecast == Some(<<500 * Krone, 800 * Krone>>)

\* the forecasts of a pass, for each of the tickers
ForecastsOfPass ==
    {[t \in TickerSet |-> NoForecast],
     [t \in TickerSet |-> IF t = "AAPL" THEN GoodForecast ELSE NoForecast],
     [t \in TickerSet |-> IF t = "EQNR" THEN BetterForecast ELSE GoodForecast],
     [t \in TickerSet |-> IF t = "AAPL" THEN ThinForecast
                           ELSE IF t = "EQNR" THEN BetterForecast ELSE GoodForecast],
     [t \in TickerSet |-> IF t = "AAPL" THEN NoForecast
                           ELSE IF t = "EQNR" THEN BetterForecast ELSE GoodForecast]}

\* the latest closes of the tickers, None for a ticker whose history of the
\* ten days has no row
ShareValues ==
    {[t \in TickerSet |-> Some(520 * Krone)],
     [t \in TickerSet |-> IF t = "NOD" THEN Some(600 * Krone) ELSE Some(520 * Krone)],
     [t \in TickerSet |-> IF t = "DNB" THEN None ELSE Some(520 * Krone)]}

\* the bars a symbol can have on a day: it opens below the buy thresholds;
\* it opens between the thresholds and trades through both; it opens above
\* the sell thresholds
OpensLow == Bar(500 * Krone, 520 * Krone, 490 * Krone)

TradesThrough == Bar(520 * Krone, 800 * Krone, 505 * Krone)

OpensHigh == Bar(810 * Krone, 820 * Krone, 800 * Krone)

\* the bars of a day, for each of the tickers
Markets ==
    {[t \in TickerSet |-> None],
     [t \in TickerSet |-> OpensLow],
     [t \in TickerSet |-> TradesThrough],
     [t \in TickerSet |-> OpensHigh],
     [t \in TickerSet |-> IF t = "AAPL" THEN OpensLow
                           ELSE IF t = "NOD" THEN None
                           ELSE IF t = "DNB" THEN OpensHigh ELSE TradesThrough]}

\* the 'Dividends' column of the day's history, for each of the tickers:
\* None where the history has no such column, or Some(values) with the
\* day's dividend per share, or with no row
Dividends ==
    {[t \in TickerSet |-> None],
     [t \in TickerSet |-> IF t = "AAPL" THEN Some(<<0>>) ELSE None],
     [t \in TickerSet |-> IF t \in {"AAPL", "NOD"} THEN Some(<<Krone>>) ELSE None],
     [t \in TickerSet |-> IF t = "AAPL" THEN Some(<<>>) ELSE Some(<<Krone>>)]}

\* the function f on the symbols S only
Restrict(f, S) == [x \in S |-> f[x]]

\* the symbols of the PENDING orders
PendingSymbols ==
    {orders[i].stock_symbol : i \in {j \in DOMAIN orders : orders[j].status = "PENDING"}}

\* the lists that hold each element of the set S once
RECURSIVE ListsOf(_)
ListsOf(S) ==
    IF S = {} THEN {<<>>}
    ELSE UNION {{<<x>> \o rest : rest \in ListsOf(S \ {x})} : x \in S}

\* the predictions list of a pass: a StockPrediction for each ticker whose
\* prediction did not raise
RECURSIVE PredictionsFrom(_, _)
PredictionsFrom(forecast, i) ==
    IF i > Len(Tickers) THEN <<>>
    ELSE (IF forecast[Tickers[i]] = None THEN <<>>
          ELSE <<StockPrediction(Tickers[i], forecast[Tickers[i]][1][1],
                                 forecast[Tickers[i]][1][2])>>)
         \o PredictionsFrom(forecast, i + 1)

\* the tables take the values of db
Commit(db) ==
    /\ cash' = db.cash
    /\ stocks' = db.stocks
    /\ orders' = db.orders
    /\ transactions' = db.transactions

\* the step after a broker method: the next one, or none when it raised
After(result, next) == IF result = "ok" THEN next ELSE "raised"

DriverInit ==
    /\ start_weekday \in StartWeekdays
    /\ \E amount \in Fundings :
        LET funded == deposit_on([cash |-> [total_value |-> 0, available |-> 0],
                                  stocks |-> <<>>, orders |-> <<>>,
                                  transactions |-> <<>>], amount)
        IN /\ cash = funded.db.cash
           /\ stocks = funded.db.stocks
           /\ orders = funded.db.orders
           /\ transactions = funded.db.transactions
           /\ last = Call("deposit", <<amount>>, "ok")
           /\ before = [cash |-> [total_value |-> 0, available |-> 0],
                        stocks |-> <<>>, orders |-> <<>>, transactions |-> <<>>]
           /\ pc = "dividend_payout"
           /\ current_day = 0
           /\ created_on = <<>>
           /\ portfolio_values = <<>>
           /\ connections = <<>>

\* `while current_day <= end_date` is false
EndOfRange ==
    /\ pc = "dividend_payout"
    /\ current_day > end_date
    /\ pc' = "done"
    /\ UNCHANGED <<ledger, last, before, current_day, created_on, start_weekday, connections, portfolio_values>>

\* `if current_day.weekday() < 5` is false
SkipWeekend ==
    /\ pc = "dividend_payout"
    /\ current_day <= end_date
    /\ weekday(current_day) >= 5
    /\ current_day' = current_day + 1
    /\ UNCHANGED <<ledger, last, before, pc, created_on, start_weekday, connections, portfolio_values>>

\* broker.dividend_payout(date=current_day)
DividendPayout ==
    /\ pc = "dividend_payout"
    /\ current_day <= end_date
    /\ weekday(current_day) < 5
    /\ \E day \in Dividends, portfolio \in ListsOf(DOMAIN stocks) :
         LET dividends == Restrict(day, DOMAIN stocks)
             paid == dividend_payout(Snapshot, portfolio, dividends)
         IN /\ Commit(paid.db)
            /\ last' = Call("dividend_payout", <<current_day, dividends>>, paid.result)
            /\ before' = Snapshot
            /\ pc' = After(paid.result, "conclude_pending_orders")
    /\ UNCHANGED <<current_day, created_on, start_weekday, connections, portfolio_values>>

\* broker.conclude_pending_orders_for_traded_stocks(todays_date=current_day)
ConcludePendingOrders ==
    /\ pc = "conclude_pending_orders"
    /\ \E market \in Markets :
         LET prices == Restrict(market, PendingSymbols)
             settled == conclude_pending_orders_for_traded_stocks(Snapshot, prices)
         IN /\ Commit(settled.db)
            /\ last' = Call("conclude_pending_orders", <<current_day, prices>>,
                            settled.result)
            /\ before' = Snapshot
            /\ pc' = After(settled.result, "update_portfolio_value")
    /\ UNCHANGED <<current_day, created_on, start_weekday, connections, portfolio_values>>

\* broker.update_portfolio_value(date=current_day)
UpdatePortfolioValue ==
    /\ pc = "update_portfolio_value"
    /\ \E share_values \in ShareValues, portfolio \in ListsOf(DOMAIN stocks) :
         LET valued == update_portfolio_value(Snapshot, portfolio_values, portfolio,
                                              share_values, current_day)
         IN /\ portfolio_values' = valued.values
            /\ last' = Call("update_portfolio_value", <<current_day>>, valued.result)
    /\ before' = Snapshot
    /\ pc' = "create_orders"
    /\ UNCHANGED <<ledger, current_day, created_on, start_weekday, connections>>

\* the predictions of the pass, populate_prediction_with_orders and
\* create_orders(predictions, date=current_day); then current_day += 1
CreateOrders ==
    /\ pc = "create_orders"
    /\ \E forecast \in ForecastsOfPass, share_values \in ShareValues :
         LET predictions == PredictionsFrom(forecast, 1)
             populated == populate_prediction_with_orders(Snapshot, predictions,
                                                          share_values)
             created == IF populated.result = "ok"
                        THEN create_orders(Snapshot, populated.predictions)
                        ELSE Raised(Snapshot, populated.result)
         IN /\ Commit(created.db)
            /\ last' = Call("create_orders", <<current_day, forecast>>,
                            created.result)
            /\ before' = Snapshot
            /\ pc' = After(created.result, "dividend_payout")
            /\ created_on' = created_on
                   \o [i \in 1..(Len(created.db.orders) - Len(orders)) |-> current_day]
            /\ current_day' = IF created.result = "ok" THEN current_day + 1
                              ELSE current_day
    /\ UNCHANGED <<start_weekday, connections, portfolio_values>>

backtrack_trading ==
    \/ DividendPayout
    \/ ConcludePendingOrders
    \/ UpdatePortfolioValue
    \/ CreateOrders
    \/ SkipWeekend
    \/ EndOfRange

DriverSpec == DriverInit /\ [][backtrack_trading]_vars

\* ------------------------------------------------------------------------
\* The broker's calculations, called on their own. They take no connection
\* to the database.
\* ------------------------------------------------------------------------
\* predicted prices: below zero, zero, of the order of a tick (0.04, 0.05,
\* 0.1, 0.12, 0.4, 0.45) and around a spread of 1.1 (100, 109, 110, 111)
PredictedPrices ==
    {0 - Krone, 0, 800, 1000, 2000, 2400, 8000, 9000,
     100 * Krone, 109 * Krone, 110 * Krone, 111 * Krone}

\* prices in whole ticks and quantities on both sides of the notional whose
\* 0.15 % is the minimum fee
FeePrices == {tick_size, 100 * Krone, 500 * Krone, 510 * Krone}

FeeQuantities == {1, 10, 38, 40}

BrokerInit ==
    /\ cash = [total_value |-> 0, available |-> 0]
    /\ stocks = <<>>
    /\ orders = <<>>
    /\ transactions = <<>>
    /\ last = Call("create_tables", <<>>, "ok")
    /\ before = Snapshot
    /\ pc = "broker"
    /\ current_day = 0
    /\ created_on = <<>>
    /\ start_weekday = 2
    /\ portfolio_values = <<>>
    /\ connections = <<>>

\* broker.calculate_thresholds(predicted_low, predicted_high)
CalculateThresholds ==
    /\ pc = "broker"
    /\ \E predicted_low \in PredictedPrices, predicted_high \in PredictedPrices :
         last' = Call("calculate_thresholds", <<predicted_low, predicted_high>>,
                      calculate_thresholds(predicted_low, predicted_high))
    /\ before' = Snapshot
    /\ UNCHANGED <<ledger, driver>>

\* broker.calculate_fee(price_per_share, number_of_shares)
CalculateFee ==
    /\ pc = "broker"
    /\ \E price_per_share \in FeePrices, number_of_shares \in FeeQuantities :
         last' = Call("calculate_fee", <<price_per_share, number_of_shares>>,
                      calculate_fee(price_per_share, number_of_shares))
    /\ before' = Snapshot
    /\ UNCHANGED <<ledger, driver>>

Broker ==
    \/ CalculateThresholds
    \/ CalculateFee

BrokerSpec == BrokerInit /\ [][Broker]_vars

\* ------------------------------------------------------------------------
\* The settlement of the broker on a ledger that was filled through the
\* operations of SQLWrapper, with orders whose fees are the callers' own.
\* ------------------------------------------------------------------------
\* the bars of a day for the symbols of the ledger's orders, at their prices
LedgerMarkets ==
    {[t \in TickerSet |-> None],
     [t \in TickerSet |-> Bar(2, 2, 1)],
     [t \in TickerSet |-> IF t = "AAPL" THEN Bar(3, 3, 3) ELSE None]}

\* an operation of SQLWrapper, before the settlement
LedgerCall ==
    /\ pc = "not_started"
    /\ Next

\* broker.conclude_pending_orders_for_traded_stocks(todays_date)
ConcludeOnLedger ==
    /\ pc = "not_started"
    /\ \E market \in LedgerMarkets :
         LET prices == Restrict(market, PendingSymbols)
             settled == conclude_pending_orders_for_traded_stocks(Snapshot, prices)
         IN /\ Commit(settled.db)
            /\ last' = Call("conclude_pending_orders", <<current_day, prices>>,
                            settled.result)
            /\ before' = Snapshot
    /\ pc' = "concluded"
    /\ UNCHANGED <<current_day, created_on, start_weekday, connections, portfolio_values>>

SettlementNext ==
    \/ LedgerCall
    \/ ConcludeOnLedger

SettlementSpec == Init /\ [][SettlementNext]_vars

\* ------------------------------------------------------------------------
\* Two callers of SQLWrapper, each on the connection its own call opens
\* (connect: sqlite3.connect(self.db_path), no isolation_level and no
\* timeout given). Such a connection opens its transaction before the first
\* UPDATE or INSERT of the block and not before a SELECT: the SELECT of the
\* CASH row gives the committed row and keeps no lock. The UPDATE takes the
\* write lock of the database file, which the block holds until it commits
\* or rolls back; a connection that finds the lock taken waits for it, and
\* raises OperationalError (database is locked) when the wait runs out.
\* ------------------------------------------------------------------------
Connections == {1, 2}

\* the balances the account is funded with before the two calls
ConcurrentFundings == {4, 6}

\* the calls made: create_buy_order(stock_symbol, price_per_share,
\* number_of_shares, fee) and deposit(amount)
ConcurrentCalls ==
    {<<"create_buy_order", <<"AAPL", 2, 1, 0>>>>,
     <<"create_buy_order", <<"NOD", 1, 2, 1>>>>,
     <<"deposit", <<4>>>>}

\* a caller that has opened its connection and executed no statement yet
Connected(call) ==
    [op |-> call[1], args |-> call[2], pc |-> "select_cash", cash |-> None,
     result |-> None]

\* what the call does with the CASH row it read, up to its first write: the
\* sufficiency check and the new values of the row
ReadCash(conn, row) ==
    IF conn.op = "create_buy_order"
    THEN LET total_cost == TotalCost(conn.args[2], conn.args[3], conn.args[4])
         IN IF InsufficientAvailable(row, total_cost)
            THEN [conn EXCEPT !.pc = "raised", !.result = Some("insufficient_cash")]
            ELSE [conn EXCEPT !.pc = "save_cash",
                              !.cash = Some([row EXCEPT !.available = @ - total_cost])]
    ELSE [conn EXCEPT !.pc = "save_cash",
                      !.cash = Some(CreditCash(row, conn.args[1]))]

\* another connection holds the write lock
LockedByOther(c) ==
    \E other \in Connections \ {c} : connections[other].pc \in {"insert", "commit"}

ConcurrentInit ==
    /\ \E amount \in ConcurrentFundings :
        LET funded == deposit_on([cash |-> [total_value |-> 0, available |-> 0],
                                  stocks |-> <<>>, orders |-> <<>>,
                                  transactions |-> <<>>], amount)
        IN /\ cash = funded.db.cash
           /\ stocks = funded.db.stocks
           /\ orders = funded.db.orders
           /\ transactions = funded.db.transactions
           /\ last = Call("deposit", <<amount>>, "ok")
           /\ before = [cash |-> [total_value |-> 0, available |-> 0],
                        stocks |-> <<>>, orders |-> <<>>, transactions |-> <<>>]
    /\ connections \in [Connections -> {Connected(call) : call \in ConcurrentCalls}]
    /\ pc = "concurrent"
    /\ current_day = 0
    /\ created_on = <<>>
    /\ start_weekday = 2
    /\ portfolio_values = <<>>

\* the tables and the driver as the statements that write no table leave them
OnConnection ==
    UNCHANGED <<ledger, last, before, pc, current_day, created_on, start_weekday,
                portfolio_values>>

\* Portfolio.get_by_key(conn, "CASH", None)
SelectCash ==
    /\ \E c \in Connections :
         /\ connections[c].pc = "select_cash"
         /\ connections' = [connections EXCEPT ![c] = ReadCash(@, cash)]
    /\ OnConnection

\* cash.save(conn): Portfolio.update writes the four columns of the row from
\* the object; the connection takes the write lock
UpdateCash ==
    /\ \E c \in Connections :
         /\ connections[c].pc = "save_cash"
         /\ ~LockedByOther(c)
         /\ connections' = [connections EXCEPT ![c].pc = "insert"]
    /\ OnConnection

\* cash.save(conn) while the other connection holds the write lock for
\* longer than the connection waits: the call raises and rolls back
DatabaseIsLocked ==
    /\ \E c \in Connections :
         /\ connections[c].pc = "save_cash"
         /\ LockedByOther(c)
         /\ connections' = [connections EXCEPT ![c].pc = "raised",
                                               ![c].result = Some("OperationalError")]
    /\ OnConnection

\* buy_order.insert(conn), dep_txn.insert(conn)
InsertRow ==
    /\ \E c \in Connections :
         /\ connections[c].pc = "insert"
         /\ connections' = [connections EXCEPT ![c].pc = "commit"]
    /\ OnConnection

\* the end of `with self.connect() as conn:`: the rows the block wrote
\* become the rows of the tables
CommitBlock ==
    /\ \E c \in Connections :
         LET conn == connections[c]
         IN /\ conn.pc = "commit"
            /\ cash' = conn.cash[1]
            /\ IF conn.op = "create_buy_order"
               THEN /\ orders' = Append(orders,
                            Order("BUY", conn.args[1], conn.args[2], conn.args[3],
                                  conn.args[4],
                                  TotalCost(conn.args[2], conn.args[3], conn.args[4])))
                    /\ UNCHANGED transactions
               ELSE /\ transactions' = Append(transactions,
                            Transaction("DEPOSIT", None, None, None, 0, conn.args[1]))
                    /\ UNCHANGED orders
            /\ connections' = [connections EXCEPT ![c].pc = "returned",
                                                  ![c].result = Some("ok")]
    /\ UNCHANGED <<stocks, last, before, pc, current_day, created_on, start_weekday,
                   portfolio_values>>

ConcurrentNext ==
    \/ SelectCash
    \/ UpdateCash
    \/ DatabaseIsLocked
    \/ InsertRow
    \/ CommitBlock

ConcurrentSpec == ConcurrentInit /\ [][ConcurrentNext]_vars

\* ------------------------------------------------------------------------
\* Valuations of a ledger: operations of SQLWrapper, then
\* broker.update_portfolio_value(date) for one date or another, any number
\* of times.
\* ------------------------------------------------------------------------
ValuationDates == {0, 1}

\* the latest close the price provider has for each symbol, None when the
\* history of the lookback window is empty
LedgerShareValues ==
    {[t \in TickerSet |-> Some(2)],
     [t \in TickerSet |-> IF t = "AAPL" THEN Some(3) ELSE Some(1)],
     [t \in TickerSet |-> IF t = "AAPL" THEN None ELSE Some(2)]}

\* an operation of SQLWrapper that funds the account or acquires shares,
\* before the first valuation
CallBeforeValuation ==
    /\ pc = "not_started"
    /\ \/ Deposit
       \/ CreateBuy
       \/ Execute

\* broker.update_portfolio_value(date)
Revalue ==
    /\ pc \in {"not_started", "valued"}
    /\ \E date \in ValuationDates, share_values \in LedgerShareValues,
          portfolio \in ListsOf(DOMAIN stocks) :
         LET valued == update_portfolio_value(Snapshot, portfolio_values, portfolio,
                                              share_values, date)
         IN /\ portfolio_values' = valued.values
            /\ last' = Call("update_portfolio_value",
                            <<date, Restrict(share_values, DOMAIN stocks)>>,
                            valued.result)
    /\ before' = Snapshot
    /\ pc' = "valued"
    /\ UNCHANGED <<ledger, current_day, created_on, start_weekday, connections>>

ValuationNext ==
    \/ CallBeforeValuation
    \/ Revalue

ValuationSpec == Init /\ [][ValuationNext]_vars

\* ------------------------------------------------------------------------
\* A funded ledger whose orders are created through SQLWrapper and settled
\* only by broker.conclude_pending_orders_for_traded_stocks, any number of
\* times.
\* ------------------------------------------------------------------------
FundedInit ==
    /\ \E amount \in Fundings :
        LET funded == deposit_on([cash |-> [total_value |-> 0, available |-> 0],
                                  stocks |-> <<>>, orders |-> <<>>,
                                  transactions |-> <<>>], amount)
        IN /\ cash = funded.db.cash
           /\ stocks = funded.db.stocks
           /\ orders = funded.db.orders
           /\ transactions = funded.db.transactions
           /\ last = Call("deposit", <<amount>>, "ok")
           /\ before = [cash |-> [total_value |-> 0, available |-> 0],
                        stocks |-> <<>>, orders |-> <<>>, transactions |-> <<>>]
    /\ pc = "not_started"
    /\ current_day = 0
    /\ created_on = <<>>
    /\ start_weekday = 2
    /\ portfolio_values = <<>>
    /\ connections = <<>>

\* broker.conclude_pending_orders_for_traded_stocks(todays_date)
SettleOnLedger ==
    /\ \E market \in LedgerMarkets :
         LET prices == Restrict(market, PendingSymbols)
             settled == conclude_pending_orders_for_traded_stocks(Snapshot, prices)
         IN /\ Len(settled.db.orders) + Len(settled.db.transactions) <= MaxRows
            /\ Commit(settled.db)
            /\ last' = Call("conclude_pending_orders", <<current_day, prices>>,
                            settled.result)
            /\ before' = Snapshot
    /\ UNCHANGED driver

BrokerLedgerNext ==
    \/ CreateBuy
    \/ CreateSell
    \/ Cancel
    \/ Deposit
    \/ Withdraw
    \/ Dividend
    \/ SettleOnLedger

BrokerLedgerSpec == FundedInit /\ [][BrokerLedgerNext]_vars

\* ------------------------------------------------------------------------
\* The backtest driver with the dates of the latest closes told apart.
\* populate_prediction_with_orders(predictions, date=<today when broker.py
\* was loaded>) looks the latest close up in the ten days before its date;
\* the driver calls it without a date, so the lookup is made for the day of
\* the run and not for current_day. For a current_day more than ten days
\* before the run the two windows share no day: the closes of the one say
\* nothing about the closes of the other.
\* ------------------------------------------------------------------------
\* predictions = broker.populate_prediction_with_orders(predictions);
\* broker.create_orders(predictions, date=current_day); current_day += 1
CreateOrdersOfDay ==
    /\ pc = "create_orders"
    /\ \E forecast \in ForecastsOfPass, closes_of_day \in ShareValues,
          closes_of_run_date \in ShareValues :
         LET predictions == PredictionsFrom(forecast, 1)
             populated == populate_prediction_with_orders(Snapshot, predictions,
                                                          closes_of_run_date)
             created == IF populated.result = "ok"
                        THEN create_orders(Snapshot, populated.predictions)
                        ELSE Raised(Snapshot, populated.result)
         IN /\ Commit(created.db)
            /\ last' = Call("create_orders",
                            <<current_day, forecast, closes_of_day, closes_of_run_date>>,
                            created.result)
            /\ before' = Snapshot
            /\ pc' = After(created.result, "dividend_payout")
            /\ created_on' = created_on
                   \o [i \in 1..(Len(created.db.orders) - Len(orders)) |-> current_day]
            /\ current_day' = IF created.result = "ok" THEN current_day + 1
                              ELSE current_day
    /\ UNCHANGED <<start_weekday, connections, portfolio_values>>

backtrack_trading_dated ==
    \/ DividendPayout
    \/ ConcludePendingOrders
    \/ UpdatePortfolioValue
    \/ CreateOrdersOfDay
    \/ SkipWeekend
    \/ EndOfRange

\* backtrack_trading() with the same day for start_date and end_date: a
\* range of one day, after the deposit that funds the run
OneDayInit ==
    /\ start_weekday \in StartWeekdays
    /\ \E amount \in Fundings :
        LET funded == deposit_on([cash |-> [total_value |-> 0, available |-> 0],
                                  stocks |-> <<>>, orders |-> <<>>,
                                  transactions |-> <<>>], amount)
        IN /\ cash = funded.db.cash
           /\ stocks = funded.db.stocks
           /\ orders = funded.db.orders
           /\ transactions = funded.db.transactions
           /\ last = Call("deposit", <<amount>>, "ok")
           /\ before = [cash |-> [total_value |-> 0, available |-> 0],
                        stocks |-> <<>>, orders |-> <<>>, transactions |-> <<>>]
           /\ pc = "dividend_payout"
           /\ current_day = end_date
           /\ created_on = <<>>
           /\ portfolio_values = <<>>
           /\ connections = <<>>

DatedDriverSpec == OneDayInit /\ [][backtrack_trading_dated]_vars

\* ------------------------------------------------------------------------
\* Properties
\* ------------------------------------------------------------------------
\* the amount of a transaction with the sign of its effect on cash
SignedAmount(t) ==
    IF t.transaction_type \in {"DEPOSIT", "SELL", "DIVIDEND"} THEN t.amount ELSE 0 - t.amount

RECURSIVE SignedSum(_)
SignedSum(txns) ==
    IF txns = <<>> THEN 0 ELSE SignedAmount(Head(txns)) + SignedSum(Tail(txns))

TypesOf(txns) == {txns[i].transaction_type : i \in DOMAIN txns}

\* the amounts reserved by the PENDING BUY orders
RECURSIVE Reserved(_)
Reserved(os) ==
    IF os = <<>> THEN 0
    ELSE (IF Head(os).order_type = "BUY" /\ Head(os).status = "PENDING"
          THEN Head(os).amount ELSE 0) + Reserved(Tail(os))

\* the shares held of a symbol, 0 without a position
Held(st, symbol) == IF symbol \in DOMAIN st THEN st[symbol].number_of_shares ELSE 0

Succeeded(op) == last.op = op /\ last.result = "ok"

Failed(op) == last.op = op /\ last.result # "ok"

\* C1: conservation. After any sequence of calls, accepted or rejected, the
\* CASH total_value equals the sum of the transaction amounts signed by type:
\* +DEPOSIT, -WITHDRAW, -BUY, +SELL, +DIVIDEND.
C1_Conservation == cash.total_value = SignedSum(transactions)

\* a BUY, a SELL and a deposit are in the ledger and the last call was rejected
C1_Witness ==
    /\ {"DEPOSIT", "BUY", "SELL"} \subseteq TypesOf(transactions)
    /\ last.result # "ok"

\* C2: in every reachable state the CASH available equals the total minus the
\* amounts reserved by the PENDING BUY orders; with no PENDING BUY order,
\* available = total, also after a BUY was executed at an Open other than
\* its limit price.
C2_AvailableIsTotalMinusReserved ==
    cash.available = cash.total_value - Reserved(orders)

\* C3: an order is created PENDING, the only transitions are PENDING ->
\* EXECUTED and PENDING -> CANCELED, and the status of an EXECUTED or CANCELED
\* order never changes again.
C3_StatusOneWay ==
    [][/\ Len(orders') >= Len(orders)
       /\ \A i \in DOMAIN orders' :
            IF i \in DOMAIN orders
            THEN \/ orders'[i].status = orders[i].status
                 \/ /\ orders[i].status = "PENDING"
                    /\ orders'[i].status \in {"EXECUTED", "CANCELED"}
            ELSE orders'[i].status = "PENDING"]_vars

\* one order is EXECUTED, one is CANCELED, and a settlement of one of them was
\* just turned away
C3_Witness ==
    /\ \E i \in DOMAIN orders : orders[i].status = "EXECUTED"
    /\ \E i \in DOMAIN orders : orders[i].status = "CANCELED"
    /\ last.op \in {"execute_order", "cancel_order"}
    /\ last.result = "not_pending"

\* C4: execute_order or cancel_order on an order that is EXECUTED or CANCELED,
\* or on an unknown id, raises and leaves the orders, the CASH position, the
\* STOCK positions and the transactions as they were.
C4_SettledIsRejected ==
    [][\A i \in OrderIds :
         (/\ i \in DOMAIN orders => orders[i].status \in {"EXECUTED", "CANCELED"}
          /\ \/ cancel_order(i)
             \/ \E o \in Overrides : execute_order(i, o[1], o[2]))
         => (last'.result # "ok" /\ UNCHANGED ledger)]_vars

\* a settlement was turned away for an order already settled while another
\* order is still PENDING and cash is reserved
C4_Witness ==
    /\ last.op \in {"execute_order", "cancel_order"}
    /\ last.result = "not_pending"
    /\ Reserved(orders) > 0

\* C5: a successful create_buy_order(symbol, price, qty, fee) inserts exactly
\* one PENDING BUY order with amount price*qty + fee, takes exactly that
\* amount from cash available, and leaves cash total, the STOCK positions
\* and the transactions unchanged.
C5_CreateBuyReserves ==
    Succeeded("create_buy_order") =>
        LET a == last.args
            amount == a[2] * a[3] + a[4]
        IN /\ orders = Append(before.orders,
                           [order_type |-> "BUY", stock_symbol |-> a[1],
                            price_per_share |-> a[2], number_of_shares |-> a[3],
                            fee |-> a[4], amount |-> amount, status |-> "PENDING"])
           /\ cash.available = before.cash.available - amount
           /\ cash.total_value = before.cash.total_value
           /\ stocks = before.stocks
           /\ transactions = before.transactions

\* a buy order with a fee was created while a position is held
C5_Witness ==
    /\ Succeeded("create_buy_order")
    /\ last.args[4] > 0
    /\ stocks # <<>>

\* the cost of a buy request (stock_symbol, price_per_share, number_of_shares, fee)
CostOf(r) == r[2] * r[3] + r[4]

\* C6: a create_buy_order whose cost price*qty + fee exceeds the cash
\* available at that moment is rejected with an error; no order row is
\* created and cash total and available are unchanged.
C6_InsufficientFundsRejected ==
    [][\A r \in BuyRequests :
         (CostOf(r) > cash.available /\ create_buy_order(r[1], r[2], r[3], r[4]))
         => (last'.result # "ok" /\ orders' = orders /\ cash' = cash)]_vars

\* a buy order was rejected that the total balance would have covered: part of
\* the total is reserved by a PENDING BUY order
C6_Witness ==
    /\ Failed("create_buy_order")
    /\ Reserved(orders) > 0
    /\ \A r \in BuyRequests : CostOf(r) > cash.available => CostOf(r) <= cash.total_value

\* C7: create_sell_order is rejected with an error, and creates no order row,
\* when the symbol has no STOCK position or the quantity asked for exceeds
\* the quantity held.
C7_InsufficientSharesRejected ==
    [][\A r \in SellRequests :
         (/\ r[1] \notin DOMAIN stocks \/ r[3] > stocks[r[1]].number_of_shares
          /\ create_sell_order(r[1], r[2], r[3], r[4]))
         => (last'.result # "ok" /\ orders' = orders)]_vars

\* a sell order was rejected although every symbol asked for is held: it asked
\* for more shares than are held
C7_Witness ==
    /\ Failed("create_sell_order")
    /\ \A r \in SellRequests : r[1] \in DOMAIN stocks

\* C8: a successful create_sell_order inserts exactly one PENDING SELL order
\* and leaves cash total, cash available, every STOCK position and the
\* transactions unchanged.
C8_CreateSellReservesNothing ==
    Succeeded("create_sell_order") =>
        LET a == last.args
        IN /\ Len(orders) = Len(before.orders) + 1
           /\ SubSeq(orders, 1, Len(before.orders)) = before.orders
           /\ orders[Len(orders)].order_type = "SELL"
           /\ orders[Len(orders)].status = "PENDING"
           /\ orders[Len(orders)].stock_symbol = a[1]
           /\ orders[Len(orders)].price_per_share = a[2]
           /\ orders[Len(orders)].number_of_shares = a[3]
           /\ orders[Len(orders)].fee = a[4]
           /\ cash = before.cash
           /\ stocks = before.stocks
           /\ transactions = before.transactions

\* a sell order with nonzero proceeds was created
C8_Witness ==
    /\ Succeeded("create_sell_order")
    /\ orders[Len(orders)].amount # 0

\* the price and the fee an accepted execute_order(order_id, _price_per_share,
\* _fee) executes at, given the order as it was
ExecutedPrice(order, a) == IF a[2] = None THEN order.price_per_share ELSE a[2][1]

ExecutedFee(order, a) == IF a[3] = None THEN order.fee ELSE a[3][1]

\* C9: executing a PENDING BUY order of qty shares at price p and fee f marks
\* it EXECUTED, appends exactly one BUY transaction with amount p*qty + f,
\* takes exactly p*qty + f from cash total, and adds qty shares to the
\* symbol's STOCK position: a new position at cost p, or else the average
\* cost becomes the quantity-weighted mean of the old cost and p.
C9_ExecuteBuy ==
    (Succeeded("execute_order") /\ before.orders[last.args[1]].order_type = "BUY") =>
        LET id == last.args[1]
            was == before.orders[id]
            p == ExecutedPrice(was, last.args)
            f == ExecutedFee(was, last.args)
            qty == was.number_of_shares
            sym == was.stock_symbol
            old == before.stocks
        IN /\ was.status = "PENDING"
           /\ orders[id].status = "EXECUTED"
           /\ transactions = Append(before.transactions,
                  [transaction_type |-> "BUY", stock_symbol |-> sym,
                   price_per_share |-> p, number_of_shares |-> qty, fee |-> f,
                   amount |-> p * qty + f])
           /\ cash.total_value = before.cash.total_value - (p * qty + f)
           /\ sym \in DOMAIN stocks
           /\ stocks[sym].number_of_shares = Held(old, sym) + qty
           /\ \A s \in DOMAIN old \ {sym} : s \in DOMAIN stocks /\ stocks[s] = old[s]
           /\ DOMAIN stocks = DOMAIN old \cup {sym}
           /\ IF sym \in DOMAIN old
              THEN \* new cost * (old qty + qty) = old cost * old qty + p * qty
                   stocks[sym].price_per_share.num * old[sym].price_per_share.den
                       * (old[sym].number_of_shares + qty)
                   = (old[sym].price_per_share.num * old[sym].number_of_shares
                      + p * qty * old[sym].price_per_share.den)
                     * stocks[sym].price_per_share.den
              ELSE stocks[sym].price_per_share = [num |-> p, den |-> 1]

\* a BUY was executed for a symbol already held, for another quantity and at
\* another price than the position's
C9_Witness ==
    /\ Succeeded("execute_order")
    /\ before.orders[last.args[1]].order_type = "BUY"
    /\ LET sym == before.orders[last.args[1]].stock_symbol
       IN /\ sym \in DOMAIN before.stocks
          /\ before.stocks[sym].number_of_shares
                 # before.orders[last.args[1]].number_of_shares
          /\ before.stocks[sym].price_per_share
                 # [num |-> orders[last.args[1]].price_per_share, den |-> 1]

C15_ReservationRoundTrip ==
    [][/\ (Succeeded("create_buy_order") /\ cancel_order(Len(orders)))
          => /\ last'.result = "ok"
             /\ cash' = before.cash
             /\ stocks' = before.stocks
             /\ transactions' = before.transactions
       /\ \A i \in DOMAIN orders :
            (orders[i].order_type = "SELL" /\ cancel_order(i)) => cash' = cash]_vars

\* the newest order, a BUY, was cancelled while a position is held, and a
\* SELL order is CANCELED too
C15_Witness ==
    /\ Succeeded("cancel_order")
    /\ last.args[1] = Len(orders)
    /\ orders[Len(orders)].order_type = "BUY"
    /\ stocks # <<>>
    /\ \E i \in DOMAIN orders :
         orders[i].order_type = "SELL" /\ orders[i].status = "CANCELED"

C24_DividendPosting ==
    [][\A r \in DividendRequests :
         receive_dividend(r[1], r[2]) =>
            IF r[2] > 0 /\ Held(stocks, r[1]) > 0
            THEN LET q == Held(stocks, r[1])
                 IN /\ last'.result = "ok"
                    /\ transactions' = Append(transactions,
                           [transaction_type |-> "DIVIDEND", stock_symbol |-> r[1],
                            price_per_share |-> r[2], number_of_shares |-> q,
                            fee |-> 0, amount |-> r[2] * q])
                    /\ cash'.total_value = cash.total_value + r[2] * q
                    /\ cash'.available = cash.available + r[2] * q
                    /\ UNCHANGED <<stocks, orders>>
            ELSE /\ last'.result # "ok"
                 /\ UNCHANGED ledger]_vars

\* a dividend was received on two shares held while an order is PENDING
C24_Witness ==
    /\ last.op = "receive_dividend"
    /\ last.result = "ok"
    /\ Held(stocks, last.args[1]) = 2
    /\ \E i \in DOMAIN orders : orders[i].status = "PENDING"

\* C26: deposit(amount) and withdraw(amount) with amount <= 0 raise and
\* change no table; a deposit or a withdrawal that returns changes cash
\* total and cash available by the amount, both the same way, and appends
\* one DEPOSIT or WITHDRAW transaction of the amount.
C26_DepositWithdraw ==
    [][/\ \A amount \in DepositAmounts :
            deposit(amount) =>
               IF amount <= 0
               THEN last'.result # "ok" /\ UNCHANGED ledger
               ELSE /\ last'.result = "ok"
                    /\ cash' = [total_value |-> cash.total_value + amount,
                                available |-> cash.available + amount]
                    /\ transactions' = Append(transactions,
                           [transaction_type |-> "DEPOSIT", stock_symbol |-> None,
                            price_per_share |-> None, number_of_shares |-> None,
                            fee |-> 0, amount |-> amount])
                    /\ UNCHANGED <<stocks, orders>>
       /\ \A amount \in WithdrawAmounts :
            withdraw(amount) =>
               IF amount <= 0
               THEN last'.result # "ok" /\ UNCHANGED ledger
               ELSE \/ last'.result # "ok" /\ UNCHANGED ledger
                    \/ /\ last'.result = "ok"
                       /\ cash' = [total_value |-> cash.total_value - amount,
                                   available |-> cash.available - amount]
                       /\ transactions' = Append(transactions,
                              [transaction_type |-> "WITHDRAW", stock_symbol |-> None,
                               price_per_share |-> None, number_of_shares |-> None,
                               fee |-> 0, amount |-> amount])
                       /\ UNCHANGED <<stocks, orders>>]_vars

\* a withdrawal returned after a deposit and left cash behind
C26_Witness ==
    /\ last.op = "withdraw"
    /\ last.result = "ok"
    /\ \E k \in DOMAIN transactions : transactions[k].transaction_type = "DEPOSIT"
    /\ cash.total_value > 0

\* ------------------------------------------------------------------------
\* Properties of the broker and the driver
\* ------------------------------------------------------------------------
\* the settlement step of a pass has just run
Concluded == last.op = "conclude_pending_orders"

\* the orders that were PENDING when the settlement step began
WerePending == {i \in DOMAIN before.orders : before.orders[i].status = "PENDING"}

\* the bar the settlement step had for order i: None, or Some(bar)
BarOf(i) == last.args[2][before.orders[i].stock_symbol]

\* the transactions the last call appended
NewTransactions ==
    SubSeq(transactions, Len(before.transactions) + 1, Len(transactions))

\* the new transactions of a symbol
NewTransactionsOf(symbol) ==
    {k \in DOMAIN NewTransactions : NewTransactions[k].stock_symbol = symbol}

\* max(29, 0.0015 * price * quantity) for a price in whole ticks: 0.0015 of
\* a tick is 3 units
FeeAt(price, quantity) ==
    LET share == 3 * (price \div tick_size) * quantity
    IN IF share > 29 * Krone THEN share ELSE 29 * Krone

\* order i was executed at the price and fee given and its transaction says so
ExecutedAt(i, type, price, fee, amount) ==
    LET was == before.orders[i]
    IN /\ orders[i] = [was EXCEPT !.status = "EXECUTED", !.price_per_share = price,
                                  !.fee = fee, !.amount = amount]
       /\ Cardinality(NewTransactionsOf(was.stock_symbol)) = 1
       /\ \A k \in NewTransactionsOf(was.stock_symbol) :
            NewTransactions[k] =
                [transaction_type |-> type, stock_symbol |-> was.stock_symbol,
                 price_per_share |-> price, number_of_shares |-> was.number_of_shares,
                 fee |-> fee, amount |-> amount]

\* order i was cancelled and nothing was posted for its symbol
CanceledUntouched(i) ==
    /\ orders[i] = [before.orders[i] EXCEPT !.status = "CANCELED"]
    /\ NewTransactionsOf(before.orders[i].stock_symbol) = {}

\* C12: a PENDING BUY order with limit price L is settled against the day's
\* bar in exactly one of three ways: with Open <= L it is executed at Open
\* with the fee of Open; or else with Low <= L it is executed at L with its
\* own fee; or else it is cancelled.
C12_BuySettlement ==
    Concluded =>
        \A i \in WerePending :
            LET was == before.orders[i]
                L == was.price_per_share
                qty == was.number_of_shares
            IN (was.order_type = "BUY" /\ BarOf(i) # None) =>
                 LET bar == BarOf(i)[1]
                 IN IF bar.Open <= L
                    THEN ExecutedAt(i, "BUY", bar.Open, FeeAt(bar.Open, qty),
                                    bar.Open * qty + FeeAt(bar.Open, qty))
                    ELSE IF bar.Low <= L
                    THEN ExecutedAt(i, "BUY", L, was.fee, L * qty + was.fee)
                    ELSE CanceledUntouched(i)

\* in one pass a BUY order was executed at an Open below its limit, for
\* another fee than the one reserved, and another one at its limit
C12_Witness ==
    /\ Concluded
    /\ \E i \in WerePending :
         /\ before.orders[i].order_type = "BUY"
         /\ orders[i].status = "EXECUTED"
         /\ orders[i].price_per_share < before.orders[i].price_per_share
         /\ orders[i].fee # before.orders[i].fee
    /\ \E i \in WerePending :
         /\ before.orders[i].order_type = "BUY"
         /\ orders[i].status = "EXECUTED"
         /\ BarOf(i)[1].Open > before.orders[i].price_per_share

\* C13: a PENDING SELL order with limit price L is settled against the
\* day's bar: with Open >= L it is executed at Open, not L, with the fee of
\* Open, and its transaction and the cash credited use Open; or else with
\* High >= L it is executed at L; or else it is cancelled.
C13_SellSettlement ==
    Concluded =>
        /\ \A i \in WerePending :
            LET was == before.orders[i]
                L == was.price_per_share
                qty == was.number_of_shares
            IN (was.order_type = "SELL" /\ BarOf(i) # None) =>
                 LET bar == BarOf(i)[1]
                 IN IF bar.Open >= L
                    THEN ExecutedAt(i, "SELL", bar.Open, FeeAt(bar.Open, qty),
                                    bar.Open * qty - FeeAt(bar.Open, qty))
                    ELSE IF bar.High >= L
                    THEN ExecutedAt(i, "SELL", L, was.fee, L * qty - was.fee)
                    ELSE CanceledUntouched(i)
        /\ cash.total_value = before.cash.total_value + SignedSum(NewTransactions)

\* a SELL order was executed at an Open above its limit, for another fee
\* than the order's
C13_Witness ==
    /\ Concluded
    /\ \E i \in WerePending :
         /\ before.orders[i].order_type = "SELL"
         /\ orders[i].status = "EXECUTED"
         /\ orders[i].price_per_share > before.orders[i].price_per_share
         /\ orders[i].fee # before.orders[i].fee

\* C14: a PENDING order whose symbol has no bar on the settlement date
\* becomes CANCELED and nothing is posted for it and its position stays as
\* it is; when no pending order has a bar, the amounts reserved by the BUY
\* orders are back in cash available, and cash total, the positions and the
\* transactions are unchanged.
C14_CancelWithoutBar ==
    Concluded =>
        /\ \A i \in WerePending :
             BarOf(i) = None =>
                /\ CanceledUntouched(i)
                /\ Held(stocks, before.orders[i].stock_symbol)
                       = Held(before.stocks, before.orders[i].stock_symbol)
        /\ (\A i \in WerePending : BarOf(i) = None) =>
                /\ cash.available = before.cash.available + Reserved(before.orders)
                /\ cash.total_value = before.cash.total_value
                /\ stocks = before.stocks
                /\ transactions = before.transactions

\* a BUY order and a SELL order were cancelled on a day without bars
C14_Witness ==
    /\ Concluded
    /\ \A i \in WerePending : BarOf(i) = None
    /\ \E i \in WerePending : before.orders[i].order_type = "BUY"
    /\ \E i \in WerePending : before.orders[i].order_type = "SELL"

\* C17: every order that is PENDING when the settlement step of a pass
\* begins is EXECUTED or CANCELED when it ends, and the settled orders are
\* not touched again; no order is PENDING after a settlement step it was
\* there for, and an order created in the pass of day d is settled in the
\* pass of the next weekday processed, never in the pass of day d.
C17_SettledOncePerPass ==
    /\ Concluded =>
          /\ \A i \in WerePending :
                /\ orders[i].status \in {"EXECUTED", "CANCELED"}
                /\ created_on[i] < last.args[1]
                /\ \A d \in (created_on[i] + 1)..(last.args[1] - 1) : weekday(d) >= 5
          /\ \A i \in DOMAIN before.orders \ WerePending : orders[i] = before.orders[i]
    /\ last.op \in {"dividend_payout", "create_orders"} =>
          SubSeq(orders, 1, Len(before.orders)) = before.orders
    /\ pc = "create_orders" => \A i \in DOMAIN orders : orders[i].status # "PENDING"
    /\ pc \in {"dividend_payout", "conclude_pending_orders"} =>
          \A i \in DOMAIN orders :
              orders[i].status = "PENDING" =>
                  \A d \in (created_on[i] + 1)..(current_day - 1) : weekday(d) >= 5

\* several orders created on a Friday were settled on the Monday, one of
\* them executed and one cancelled
C17_Witness ==
    /\ Concluded
    /\ Cardinality(WerePending) >= 3
    /\ \E i, j \in WerePending :
         /\ created_on[i] + 3 = last.args[1]
         /\ created_on[j] + 3 = last.args[1]
         /\ orders[i].status = "EXECUTED"
         /\ orders[j].status = "CANCELED"

\* the PENDING BUY orders
PendingBuys ==
    {i \in DOMAIN orders :
        orders[i].order_type = "BUY" /\ orders[i].status = "PENDING"}

\* C18: after the order creation of a pass, the STOCK positions held and
\* the PENDING BUY orders are together at most number_of_stocks_allowed,
\* and the positions held are never more than number_of_stocks_allowed.
C18_PositionCap ==
    /\ last.op = "create_orders" =>
          Cardinality(DOMAIN stocks) + Cardinality(PendingBuys)
              <= number_of_stocks_allowed
    /\ Cardinality(DOMAIN stocks) <= number_of_stocks_allowed

\* the orders the last call appended
NewOrders == (Len(before.orders) + 1)..Len(orders)

\* C19: the order creation of a pass opens, for every ticker that is held
\* and has a prediction, a PENDING SELL order for the whole quantity held,
\* whether or not the prediction gives thresholds.
C19_HeldTickerGetsSellOrder ==
    last.op = "create_orders" =>
        \A ticker \in DOMAIN before.stocks :
            last.args[2][ticker] # None =>
                \E i \in NewOrders :
                    /\ orders[i].order_type = "SELL"
                    /\ orders[i].status = "PENDING"
                    /\ orders[i].stock_symbol = ticker
                    /\ orders[i].number_of_shares
                           = before.stocks[ticker].number_of_shares

\* the buy thresholds of the predictions (500, 700) and (500, 800): 500 * 1.02
SizedThresholds == {510 * Krone}

\* the largest k in 0..n with k * p + fee(p, k) <= budget, 0 when there is none
RECURSIVE LargestAffordable(_, _, _)
LargestAffordable(n, p, budget) ==
    IF n <= 0 THEN 0
    ELSE IF n * p + FeeAt(p, n) <= budget THEN n
    ELSE LargestAffordable(n - 1, p, budget)

\* C20: where a pass sizes its buy candidates, calculate_number_of_shares(p)
\* raises nothing and returns the largest k >= 0 with k * p + fee(p, k) <=
\* available / (number_of_stocks_allowed - held), and 0 when no share is
\* affordable or held >= number_of_stocks_allowed; never a negative number.
C20_PositionSizing ==
    pc = "create_orders" =>
        \A p \in SizedThresholds :
            LET sized == calculate_number_of_shares(Snapshot, p)
                slots == number_of_stocks_allowed - Cardinality(DOMAIN stocks)
            IN /\ sized.result = "ok"
               /\ sized.shares >= 0
               /\ sized.shares =
                     IF slots <= 0 THEN 0
                     ELSE LET budget == cash.available \div slots
                          IN LargestAffordable(budget \div p, p, budget)

\* ------------------------------------------------------------------------
\* Properties of the broker's calculations
\* ------------------------------------------------------------------------
\* t is a whole number of ticks and no other one is nearer to n / d
NearestTick(t, n, d) ==
    /\ t % tick_size = 0
    /\ 2 * Abs(t * d - n) <= tick_size * d

\* C21: calculate_thresholds(low, high) returns (None, None) when low < 0,
\* high < 0, low >= high or low * 1.1 >= high; otherwise it returns low *
\* 1.02 and high * 0.98, each rounded to the tick; the tables are as before.
C21_ThresholdEngine ==
    last.op = "calculate_thresholds" =>
        LET low == last.args[1]
            high == last.args[2]
            no_trade == \/ low < 0
                        \/ high < 0
                        \/ low >= high
                        \/ low * 11 >= high * 10
        IN /\ no_trade => last.result = <<None, None>>
           /\ ~no_trade =>
                /\ last.result[1] # None
                /\ last.result[2] # None
                /\ NearestTick(last.result[1][1], low * 102, 100)
                /\ NearestTick(last.result[2][1], high * 98, 100)
           /\ Snapshot = before

\* thresholds were given for a prediction of 100 to 111, the buy threshold
\* 102 and the sell threshold 108.8, rounded from 108.78
C21_Witness ==
    /\ last.op = "calculate_thresholds"
    /\ last.args = <<100 * Krone, 111 * Krone>>
    /\ last.result = <<Some(102 * Krone), Some(108 * Krone + 8 * tick_size)>>

\* C22: the thresholds of an accepted prediction are whole numbers of ticks
\* and the buy threshold is below the sell threshold, at any price.
C22_BuyBelowSell ==
    (last.op = "calculate_thresholds" /\ last.result[1] # None) =>
        /\ last.result[1][1] % tick_size = 0
        /\ last.result[2][1] % tick_size = 0
        /\ last.result[1][1] < last.result[2][1]

\* C23: calculate_fee(price, quantity) is max(minimum_fee, 0.0015 * price *
\* quantity), never below the minimum and not lower at a higher price or a
\* larger quantity, so that the cost of a quantity at a price at or below
\* another is at most the cost at the other.
C23_Fee ==
    last.op = "calculate_fee" =>
        LET price == last.args[1]
            quantity == last.args[2]
            fee == last.result
        IN /\ fee * 2000 = (IF 3 * price * quantity > 29 * Krone * 2000
                            THEN 3 * price * quantity ELSE 29 * Krone * 2000)
           /\ fee >= 29 * Krone
           /\ \A p \in FeePrices, q \in FeeQuantities :
                (p >= price /\ q >= quantity) =>
                    /\ calculate_fee(p, q) >= fee
                    /\ (q = quantity) =>
                          price * quantity + fee <= p * q + calculate_fee(p, q)

\* a fee above the minimum was charged
C23_Witness ==
    /\ last.op = "calculate_fee"
    /\ last.args = <<510 * Krone, 38>>
    /\ last.result > 29 * Krone

\* the dividend payout of a pass has just run
PaidOut == last.op = "dividend_payout"

\* the provider had no dividend of the day for the symbol: no column, no
\* row, or a zero
NoDividend(symbol) ==
    \/ last.args[2][symbol] = None
    \/ Len(last.args[2][symbol][1]) = 0
    \/ last.args[2][symbol][1][1] = 0

\* C25: where the provider has no dividend for a held stock on the date (no
\* column, no row, or a zero), dividend_payout posts nothing for that stock,
\* pays the other stocks held and returns, and settlement is the next step.
C25_NoDividendIsNoError ==
    PaidOut =>
        /\ last.result = "ok"
        /\ pc = "conclude_pending_orders"
        /\ stocks = before.stocks
        /\ orders = before.orders
        /\ \A symbol \in DOMAIN before.stocks :
             IF NoDividend(symbol)
             THEN NewTransactionsOf(symbol) = {}
             ELSE /\ Cardinality(NewTransactionsOf(symbol)) = 1
                  /\ \A k \in NewTransactionsOf(symbol) :
                       /\ NewTransactions[k].transaction_type = "DIVIDEND"
                       /\ NewTransactions[k].amount
                             = last.args[2][symbol][1][1] * before.stocks[symbol].number_of_shares

\* the order creation of a pass has just run
OrdersCreated == last.op = "create_orders"

\* the orders the last call made for a ticker
NewOrdersOf(ticker) == {i \in NewOrders : orders[i].stock_symbol = ticker}

\* C27: a ticker whose prediction or price data fails or is missing in a
\* pass is skipped: no order is made for it, no exception of the lookup
\* ends the pass, and the driver goes on to the next day.
C27_ExternalErrorsIsolated ==
    OrdersCreated =>
        /\ last.result \notin {"IndexError", "KeyError", "ValueError"}
        /\ \A ticker \in TickerSet :
             last.args[2][ticker] = None => NewOrdersOf(ticker) = {}
        /\ pc # "raised"
        /\ current_day > last.args[1]

\* C28: an order that is still PENDING after the settlement step is one
\* whose own settlement raises; every other order that was PENDING when
\* the step began is EXECUTED or CANCELED.
C28_SettlementIsolated ==
    Concluded =>
        \A i \in WerePending :
            orders[i].status = "PENDING" =>
                SettleOrder(Snapshot, i, orders[i], BarOf(i)).result # "ok"

\* the day of the week of a day of the range, 5 and 6 the weekend
DayOfWeek(day) == (start_weekday + day) % 7

\* the steps of a pass in their order, and the ways out of the loop
StepOrder ==
    {<<"dividend_payout", "conclude_pending_orders">>,
     <<"conclude_pending_orders", "update_portfolio_value">>,
     <<"update_portfolio_value", "create_orders">>,
     <<"create_orders", "dividend_payout">>,
     <<"dividend_payout", "done">>,
     <<"dividend_payout", "raised">>,
     <<"conclude_pending_orders", "raised">>,
     <<"create_orders", "raised">>}

\* what each step of a pass finds and leaves
StepsInOrder ==
    /\ last.op \in {"dividend_payout", "conclude_pending_orders",
                     "update_portfolio_value", "create_orders"} =>
          DayOfWeek(last.args[1]) < 5
    /\ PaidOut =>
          /\ orders = before.orders
          /\ stocks = before.stocks
          /\ \A k \in DOMAIN NewTransactions :
               /\ NewTransactions[k].transaction_type = "DIVIDEND"
               /\ NewTransactions[k].number_of_shares
                     = before.stocks[NewTransactions[k].stock_symbol].number_of_shares
          /\ \A i \in DOMAIN orders :
               (\A d \in (created_on[i] + 1)..(last.args[1] - 1) : DayOfWeek(d) >= 5)
                   => orders[i].status = "PENDING"
    /\ last.op = "update_portfolio_value" =>
          /\ Snapshot = before
          /\ \A i \in DOMAIN orders :
               orders[i].status # "PENDING" /\ created_on[i] < last.args[1]
          /\ last.result = "ok" =>
               /\ last.args[1] \in SampledDates(portfolio_values)
               /\ \A d \in SampledDates(portfolio_values) : d <= last.args[1]
    /\ OrdersCreated =>
          \A i \in DOMAIN before.orders :
              before.orders[i].status # "PENDING" /\ orders[i] = before.orders[i]

ReservedBy(conn) ==
    IF conn.pc # "returned" THEN 0
    ELSE IF conn.op = "create_buy_order"
    THEN TotalCost(conn.args[2], conn.args[3], conn.args[4])
    ELSE 0 - conn.args[1]

\* both calls are over
BothOver == \A c \in Connections : connections[c].pc \in {"returned", "raised"}

\* C30: when two calls that write the CASH row run on separate connections
\* with their statements interleaved, the available balance is never below
\* zero, and once both are over it is the balance they found less the
\* reservation of every create_buy_order that returned (plus every deposit
\* that returned): no update of the CASH row is lost.
C30_SerializedCash ==
    DOMAIN connections # {} =>
        /\ cash.available >= 0
        /\ BothOver =>
             cash.available = last.args[1] - ReservedBy(connections[1])
                                           - ReservedBy(connections[2])

\* quantity times close, summed over the STOCK positions
RECURSIVE MarkToMarket(_, _, _)
MarkToMarket(st, closes, symbols) ==
    IF symbols = {} THEN 0
    ELSE LET symbol == CHOOSE x \in symbols : TRUE
         IN st[symbol].number_of_shares * closes[symbol][1]
                + MarkToMarket(st, closes, symbols \ {symbol})

\* the samples of the dates other than `date`
OtherSamples(values, date) ==
    {values[i] : i \in {j \in DOMAIN values : values[j].date # date}}

WritesTransaction == {"deposit", "withdraw", "execute_order", "receive_dividend"}

\* C32: the transactions are append-only. After every call of the wrapper
\* the transactions it found are still there, unchanged and in place; a
\* deposit, withdraw, execute_order or receive_dividend that returned has
\* added exactly one, and every other call and every rejected call none.
C32_AppendOnlyTransactions ==
    /\ Len(transactions) >= Len(before.transactions)
    /\ SubSeq(transactions, 1, Len(before.transactions)) = before.transactions
    /\ Len(NewTransactions) =
          IF last.result = "ok" /\ last.op \in WritesTransaction THEN 1 ELSE 0

\* an order is canceled after two transactions were written and another
\* order was executed
C32_Witness ==
    /\ Succeeded("cancel_order")
    /\ Len(transactions) >= 2
    /\ \E i \in DOMAIN orders : orders[i].status = "EXECUTED"

\* ------------------------------------------------------------------------
\* Properties of the selection of the predictions
\* ------------------------------------------------------------------------
\* what a buy of the ticker at the forecast's thresholds is estimated to
\* bring: the sized quantity and the sell proceeds less the buy cost, fees
\* counted on both sides; None when the ticker is no buy candidate
Candidacy(db, ticker, forecast, share_values) ==
    IF ticker \in DOMAIN db.stocks \/ forecast[ticker] = None THEN None
    ELSE LET thresholds == calculate_thresholds(forecast[ticker][1][1],
                                                forecast[ticker][1][2])
         IN IF thresholds[1] = None \/ thresholds[2] = None THEN None
            ELSE LET buy == thresholds[1][1]
                     sell == thresholds[2][1]
                     quantity == calculate_number_of_shares(db, buy).shares
                     profit == (quantity * sell - FeeAt(sell, quantity))
                                  - (quantity * buy + FeeAt(buy, quantity))
                 IN IF quantity <= 0 \/ profit <= 0 THEN None
                    ELSE IF share_values[ticker] = None THEN None
                    ELSE IF buy * 103 < share_values[ticker][1] * 100 THEN None
                    ELSE Some([number_of_shares |-> quantity, buy_threshold |-> buy,
                               sell_threshold |-> sell, profit |-> profit])

\* the positions in a list of predictions of those for tickers not held
BuysIn(db, predictions) ==
    {k \in DOMAIN predictions : predictions[k].ticker \notin DOMAIN db.stocks}

\* populate_prediction_with_orders returned `selected` for the forecast
SelectedByProfit(db, forecast, share_values, selected) ==
    LET buys == BuysIn(db, selected)
    IN /\ \A k \in buys :
            LET candidacy == Candidacy(db, selected[k].ticker, forecast, share_values)
            IN /\ candidacy # None
               /\ selected[k].number_of_shares = candidacy[1].number_of_shares
               /\ selected[k].number_of_shares > 0
               /\ selected[k].buy_threshold = candidacy[1].buy_threshold
               /\ selected[k].sell_threshold = candidacy[1].sell_threshold
               /\ selected[k].profit = candidacy[1].profit
               /\ selected[k].profit > 0
               /\ \A j \in buys : j # k => selected[j].ticker # selected[k].ticker
       /\ \A j, k \in buys : j < k => selected[j].profit >= selected[k].profit
       /\ \A ticker \in TickerSet :
            LET candidacy == Candidacy(db, ticker, forecast, share_values)
            IN (candidacy # None /\ \A k \in buys : selected[k].ticker # ticker) =>
                   \A k \in buys : selected[k].profit >= candidacy[1].profit

\* C33: where a pass selects its predictions, for every forecast and latest
\* closes, each selected prediction for a ticker not held has accepted
\* thresholds, a sized quantity > 0 and an estimated profit > 0 (sell
\* proceeds less buy cost, fees counted on both sides); the selected ones
\* are in descending order of profit; and no buy candidate left out has a
\* larger profit than a selected one.
C33_BuyCandidateSelection ==
    pc = "create_orders" =>
        \A forecast \in ForecastsOfPass, share_values \in ShareValues :
            LET populated == populate_prediction_with_orders(
                                 Snapshot, PredictionsFrom(forecast, 1), share_values)
            IN populated.result = "ok" =>
                   SelectedByProfit(Snapshot, forecast, share_values,
                                    populated.predictions)

\* orders were created for a forecast of which a candidate was left out,
\* and a selected one that comes later in the list of tickers has the larger
\* profit
C33_Witness ==
    /\ OrdersCreated
    /\ last.result = "ok"
    /\ \E share_values \in ShareValues, i, j \in DOMAIN Tickers :
         /\ LET populated == populate_prediction_with_orders(
                                  before, PredictionsFrom(last.args[2], 1), share_values)
            IN /\ populated.result = "ok"
               /\ {populated.predictions[k].ticker : k \in DOMAIN populated.predictions}
                     = {t \in TickerSet : NewOrdersOf(t) # {}}
         /\ i < j
         /\ NewOrdersOf(Tickers[i]) = {}
         /\ NewOrdersOf(Tickers[j]) # {}
         /\ Candidacy(before, Tickers[i], last.args[2], share_values) # None
         /\ Candidacy(before, Tickers[j], last.args[2], share_values) # None
         /\ Candidacy(before, Tickers[i], last.args[2], share_values)[1].profit
               < Candidacy(before, Tickers[j], last.args[2], share_values)[1].profit

\* C34: 0 <= available <= total_value of the CASH row, in every state
\* reached through deposit, withdraw, create_buy_order, create_sell_order,
\* cancel_order, receive_dividend and the broker's settlement.
C34_CashWithinBounds ==
    /\ 0 <= cash.available
    /\ cash.available <= cash.total_value

\* the shares of a symbol the transactions account for: bought less sold
RECURSIVE SharesTraded(_, _)
SharesTraded(txns, symbol) ==
    IF txns = <<>> THEN 0
    ELSE (IF Head(txns).stock_symbol # symbol THEN 0
          ELSE IF Head(txns).transaction_type = "BUY" THEN Head(txns).number_of_shares
          ELSE IF Head(txns).transaction_type = "SELL"
          THEN 0 - Head(txns).number_of_shares
          ELSE 0) + SharesTraded(Tail(txns), symbol)

\* C35: share conservation. In every reachable state and for every symbol
\* the quantity held, 0 without a STOCK row, is the sum of the quantities of
\* its BUY transactions less the sum of those of its SELL transactions.
C35_ShareConservation ==
    \A symbol \in TickerSet : Held(stocks, symbol) = SharesTraded(transactions, symbol)

\* a part of the shares bought of a symbol was sold and the rest is held
C35_Witness ==
    \E symbol \in DOMAIN stocks :
        /\ stocks[symbol].number_of_shares > 0
        /\ \E k \in DOMAIN transactions :
              /\ transactions[k].transaction_type = "SELL"
              /\ transactions[k].stock_symbol = symbol

\* what an order and a transaction of a trade have in common
TradeOf(type, row) ==
    [side |-> type, stock_symbol |-> row.stock_symbol,
     price_per_share |-> row.price_per_share,
     number_of_shares |-> row.number_of_shares, fee |-> row.fee,
     amount |-> row.amount]

ExecutedOrders == {i \in DOMAIN orders : orders[i].status = "EXECUTED"}

TradeTransactions ==
    {k \in DOMAIN transactions : transactions[k].transaction_type \in {"BUY", "SELL"}}

\* C36: the EXECUTED orders and the BUY and SELL transactions correspond one
\* to one: there are as many of the one as of the other, and each side,
\* symbol, price, quantity, fee and amount persisted on an EXECUTED order is
\* found on as many trade transactions as EXECUTED orders, so that the
\* orders can be paired with transactions of equal values; the values are
\* those of the execution. PENDING and CANCELED orders are paired with none.
C36_OrdersMatchTransactions ==
    /\ Cardinality(ExecutedOrders) = Cardinality(TradeTransactions)
    /\ \A i \in ExecutedOrders :
         LET trade == TradeOf(orders[i].order_type, orders[i])
         IN Cardinality({j \in ExecutedOrders :
                            TradeOf(orders[j].order_type, orders[j]) = trade})
              = Cardinality({k \in TradeTransactions :
                               TradeOf(transactions[k].transaction_type,
                                       transactions[k]) = trade})
    /\ Succeeded("execute_order") =>
          /\ orders[last.args[1]].status = "EXECUTED"
          /\ Len(NewTransactions) = 1
          /\ TradeOf(NewTransactions[1].transaction_type, NewTransactions[1])
                = TradeOf(orders[last.args[1]].order_type, orders[last.args[1]])

\* an order was executed at another price than its limit while another
\* order is PENDING or CANCELED
C36_Witness ==
    /\ Succeeded("execute_order")
    /\ last.args[2] # None
    /\ orders[last.args[1]].price_per_share
          # before.orders[last.args[1]].price_per_share
    /\ \E i \in DOMAIN orders : orders[i].status \in {"CANCELED", "PENDING"}

\* C37: cash reserved by PENDING BUY orders cannot be withdrawn. A withdraw
\* that returned took no more than the available cash it found, so a
\* withdraw of more than is available is rejected even when the total would
\* cover it; and a rejected withdraw leaves every table as it found it, with
\* no transaction added.
C37_ReservedCashStays ==
    /\ Succeeded("withdraw") =>
          /\ last.args[1] <= before.cash.available
          /\ cash.available >= 0
    /\ Failed("withdraw") =>
          /\ Snapshot = before
          /\ NewTransactions = <<>>

\* a withdraw of an amount the total covers is rejected while a PENDING BUY
\* order reserves a part of the cash
C37_Witness ==
    /\ Failed("withdraw")
    /\ last.result = "insufficient_cash"
    /\ \E amount \in WithdrawAmounts :
         /\ amount > 0
         /\ amount <= before.cash.total_value
         /\ amount > before.cash.available
    /\ Reserved(before.orders) > 0

\* C38: reserved cash is backed. In every state the cash total is at least
\* the sum of the amounts of the PENDING BUY orders, and the broker's
\* settlement, which executes a BUY order at its limit or at an Open at or
\* below it, never fails the check of the cash total.
C38_ReservedCashBacked ==
    /\ cash.total_value >= Reserved(orders)
    /\ Concluded => last.result # "insufficient_total"

\* the PENDING orders of a ticker
PendingOf(ticker) ==
    {i \in DOMAIN orders :
        orders[i].status = "PENDING" /\ orders[i].stock_symbol = ticker}

\* C39: in every state of a driver run each ticker has at most one PENDING
\* order; a BUY order is created, and is PENDING, only for a ticker without
\* a STOCK position; a SELL order is created for the whole quantity held of
\* its ticker, and while it is PENDING that quantity is still held.
C39_OnePendingOrderPerTicker ==
    /\ \A ticker \in TickerSet :
         /\ Cardinality(PendingOf(ticker)) <= 1
         /\ \A i \in PendingOf(ticker) :
              IF orders[i].order_type = "BUY"
              THEN ticker \notin DOMAIN stocks
              ELSE /\ ticker \in DOMAIN stocks
                   /\ orders[i].number_of_shares = stocks[ticker].number_of_shares
    /\ OrdersCreated =>
          \A i \in NewOrders :
              /\ orders[i].status = "PENDING"
              /\ IF orders[i].order_type = "BUY"
                 THEN orders[i].stock_symbol \notin DOMAIN before.stocks
                 ELSE orders[i].number_of_shares
                          = Held(before.stocks, orders[i].stock_symbol)

\* a pass created a SELL order for a ticker held and a BUY order for
\* another one
C39_Witness ==
    /\ OrdersCreated
    /\ \E i, j \in NewOrders :
         /\ orders[i].order_type = "SELL"
         /\ orders[j].order_type = "BUY"
         /\ orders[i].stock_symbol \in DOMAIN stocks

\* C40: no look-ahead. The orders a pass creates for current_day are those
\* that follow from the tables it found, the forecasts and the latest
\* closes as of current_day, whatever the closes of later days are.
C40_NoLookAhead ==
    (OrdersCreated /\ Len(last.args) = 4) =>
        LET populated == populate_prediction_with_orders(
                             before, PredictionsFrom(last.args[2], 1), last.args[3])
        IN (populated.result = "ok" /\ last.result = "ok") =>
               orders = create_orders(before, populated.predictions).db.orders

====
